---- MODULE Spec2Model ----
(***************************************************************************)
(* Model of the OpenAI request mediator (OpenAIRateLimiter): budget gate,  *)
(* requests-per-minute window, retry loop with backoff, spend ledger, and  *)
(* the pricing resolver and error classifier it composes.                  *)
(*                                                                         *)
(* Units: time is in milliseconds; money is in nano-USD (1e-9 USD), so the *)
(* 6-decimal rounding of toFixed(6) is a rounding to a multiple of 1000.   *)
(* Rates of the pricing table are USD per 1K tokens, i.e. micro-USD per    *)
(* 1K tokens = nano-USD per token.                                         *)
(***************************************************************************)
EXTENDS Integers, Sequences, FiniteSets, TLC

\* ---------------------------------------------------------------- bounds
NumCallers == 2      \* concurrent makeRequest callers
MaxWindows == 1      \* rate windows the clock runs past
MaxMonth == 2        \* UTC months the wall clock passes through
MaxCalls == 2        \* makeRequest calls started in one run
MaxUsage == 1        \* recordUsage calls issued from outside makeRequest
MaxHeaderLen == 2    \* characters of a Retry-After header value
MaxRequests == 4     \* HTTP requests the service receives

\* ------------------------------------------------------ program constants
WindowMs == 60000
windowMs == 60000
BackoffBaseMs == 500
BackoffCapMs == 15000
JitterRange == 100
DefaultMaxRetries == 3

\* ------------------------------------------------------------- helpers
Max(a, b) == IF a >= b THEN a ELSE b
Min(a, b) == IF a <= b THEN a ELSE b

RECURSIVE Pow2(_)
Pow2(n) == IF n <= 0 THEN 1 ELSE 2 * Pow2(n - 1)

\* Number(x.toFixed(6)) on a non-negative amount held in nano-USD:
\* round half up to a multiple of 1000 nano-USD.
ToFixed6(x) == ((x + 500) \div 1000) * 1000

\* "undefined" for values that are otherwise non-negative numbers
Undef == -1

\* -------------------------------------------------------------- pricing
GPT_4O == <<"g", "p", "t", "-", "4", "o">>
GPT_4O_MINI == GPT_4O \o <<"-", "m", "i", "n", "i">>
GPT_41 == <<"g", "p", "t", "-", "4", ".", "1">>
GPT_41_MINI == GPT_41 \o <<"-", "m", "i", "n", "i">>
GPT_41_NANO == GPT_41 \o <<"-", "n", "a", "n", "o">>
\* a dated snapshot of gpt-4o-mini, and a model of no known family
GPT_4O_MINI_DATED == GPT_4O_MINI \o <<"-", "2", "5">>
UNKNOWN_MODEL == <<"o", "1">>
\* a longer name of the gpt-4.1-mini family, and a name every key extends
GPT_41_MINI_X == GPT_41_MINI \o <<"-", "x">>
GPT_4 == <<"g", "p", "t", "-", "4">>
\* names of properties MODEL_PRICING inherits from Object.prototype
CONSTRUCTOR == <<"c", "o", "n", "s", "t", "r", "u", "c", "t", "o", "r">>
TO_STRING == <<"t", "o", "S", "t", "r", "i", "n", "g">>
ObjectPrototypeKeys == {CONSTRUCTOR, TO_STRING}

\* Keys of MODEL_PRICING in insertion order (Object.keys order).
PricingKeyOrder == <<GPT_4O, GPT_4O_MINI, GPT_41, GPT_41_MINI, GPT_41_NANO>>

PricingKeys == {PricingKeyOrder[i] : i \in 1..Len(PricingKeyOrder)}

MODEL_PRICING ==
  [k \in PricingKeys |->
     CASE k = GPT_4O      -> [inputPer1K |-> 5000, outputPer1K |-> 15000]
       [] k = GPT_4O_MINI -> [inputPer1K |-> 600,  outputPer1K |-> 2400]
       [] k = GPT_41      -> [inputPer1K |-> 2000, outputPer1K |-> 8000]
       [] k = GPT_41_MINI -> [inputPer1K |-> 400,  outputPer1K |-> 1600]
       [] OTHER           -> [inputPer1K |-> 100,  outputPer1K |-> 400]]

\* Array.prototype.sort is stable: insert each key after the keys that are
\* at least as long.
RECURSIVE InsertByLength(_, _)
InsertByLength(sorted, k) ==
  IF sorted = << >> THEN <<k>>
  ELSE IF Len(Head(sorted)) >= Len(k)
       THEN <<Head(sorted)>> \o InsertByLength(Tail(sorted), k)
       ELSE <<k>> \o sorted

RECURSIVE SortByLength(_)
SortByLength(keys) ==
  IF keys = << >> THEN << >>
  ELSE InsertByLength(SortByLength(SubSeq(keys, 1, Len(keys) - 1)), keys[Len(keys)])

PRICING_KEYS_BY_LENGTH == SortByLength(PricingKeyOrder)

StartsWith(s, k) == Len(k) <= Len(s) /\ SubSeq(s, 1, Len(k)) = k

\* index of the first key of PRICING_KEYS_BY_LENGTH that prefixes model, 0 if none
RECURSIVE FirstPrefix(_, _)
FirstPrefix(model, i) ==
  IF i > Len(PRICING_KEYS_BY_LENGTH) THEN 0
  ELSE IF StartsWith(model, PRICING_KEYS_BY_LENGTH[i]) THEN i
  ELSE FirstPrefix(model, i + 1)

FallbackModes == {"mini", "conservative", "error"}

\* mutant: mode `mini` picks the cheapest entry of the table
fallbackCheapest(mode) ==
  IF mode = "conservative" THEN [ok |-> TRUE, isPricing |-> TRUE, pricing |-> MODEL_PRICING[GPT_4O]]
  ELSE IF mode = "error" THEN [ok |-> FALSE, isPricing |-> TRUE, pricing |-> MODEL_PRICING[GPT_41_NANO]]
  ELSE [ok |-> TRUE, isPricing |-> TRUE, pricing |-> MODEL_PRICING[GPT_41_NANO]]

\* the fallbacks of resolvePricing; any mode other than `conservative` and
\* `error` behaves as `mini`
fallback(mode) ==
  IF mode = "conservative" THEN [ok |-> TRUE, isPricing |-> TRUE, pricing |-> MODEL_PRICING[GPT_4O]]
  ELSE IF mode = "error" THEN [ok |-> FALSE, isPricing |-> TRUE, pricing |-> MODEL_PRICING[GPT_4O_MINI]]
  ELSE [ok |-> TRUE, isPricing |-> TRUE, pricing |-> MODEL_PRICING[GPT_4O_MINI]]

\* resolvePricing: [ok |-> FALSE] stands for the thrown Error of mode `error`.
\* The exact-match test `if (MODEL_PRICING[model])` is a property lookup on an
\* object literal: it is also truthy for the names the object inherits, and the
\* value returned for those is not a TokenPricing (isPricing |-> FALSE; its
\* inputPer1K and outputPer1K are undefined).
resolvePricing(model, mode) ==
  IF model \in PricingKeys
    THEN [ok |-> TRUE, isPricing |-> TRUE, pricing |-> MODEL_PRICING[model]]
  ELSE IF model \in ObjectPrototypeKeys
    THEN [ok |-> TRUE, isPricing |-> FALSE, pricing |-> [inputPer1K |-> 0, outputPer1K |-> 0]]
  ELSE IF FirstPrefix(model, 1) # 0
    THEN [ok |-> TRUE, isPricing |-> TRUE,
          pricing |-> MODEL_PRICING[PRICING_KEYS_BY_LENGTH[FirstPrefix(model, 1)]]]
  ELSE fallback(mode)

\* estimateCostUSD: [ok |-> FALSE] stands for a thrown Error (unknown model in
\* mode `error`, or negative token counts); cost is in nano-USD; nan |-> TRUE
\* is the result NaN (a number times undefined), whose cost field is void.
estimateCostUSD(model, promptTokens, completionTokens, mode) ==
  LET r == resolvePricing(model, mode) IN
  IF ~r.ok THEN [ok |-> FALSE, nan |-> FALSE, cost |-> 0]
  ELSE IF promptTokens < 0 \/ completionTokens < 0 THEN [ok |-> FALSE, nan |-> FALSE, cost |-> 0]
  ELSE IF ~r.isPricing THEN [ok |-> TRUE, nan |-> TRUE, cost |-> 0]
  ELSE [ok |-> TRUE, nan |-> FALSE,
        cost |-> ToFixed6(promptTokens * r.pricing.inputPer1K
                          + completionTokens * r.pricing.outputPer1K)]

\* estimateCostUSD has not been called directly
NoQuery == [model |-> << >>, promptTokens |-> 0, completionTokens |-> 0]
NoAnswer == [asked |-> FALSE, resolved |-> fallback("mini"),
             estimate |-> [ok |-> FALSE, nan |-> FALSE, cost |-> 0]]

\* ------------------------------------------------------- error classifier
\* A failure thrown by client.chat, as the classifier probes it:
\*   status      numeric `.status`, 0 when there is none
\*   name        `.name`
\*   code        `.code`, "" when there is none
\*   ecode       `.error.code`, "" when there is none
\*   retryAfter  value of `.response.headers.get('retry-after')`
\*   message     `.message`
\* A Retry-After header value is [kind, v]: absent (undefined/null), empty (""),
\* seconds (a numeric string, v seconds), date (an HTTP date, v its epoch ms)
\* or garbage (neither).
RAAbsent == [kind |-> "absent", v |-> 0]
RAEmpty == [kind |-> "empty", v |-> 0]
RAGarbage == [kind |-> "garbage", v |-> 0]
RASeconds(s) == [kind |-> "seconds", v |-> s]
RADate(d) == [kind |-> "date", v |-> d]

Failure(status, name, code, ecode, ra) ==
  [status |-> status, name |-> name, code |-> code, ecode |-> ecode, retryAfter |-> ra,
   message |-> "provider failure"]

\* `lastErr` before any failure was caught (undefined)
NoErr == Failure(0, "undefined", "", "", RAAbsent)
\* the Error thrown by estimateCostUSD
PricingErr ==
  [Failure(0, "Error", "", "", RAAbsent) EXCEPT !.message = "Unknown OpenAI model for pricing"]

\* mutant: the delay is not clamped at zero
parseRetryAfterUnclamped(retryAfter, now) ==
  CASE retryAfter.kind \in {"absent", "empty"} -> Undef
    [] retryAfter.kind = "seconds" -> retryAfter.v * 1000
    [] retryAfter.kind = "date" -> retryAfter.v - now
    [] OTHER -> Undef

parseRetryAfter(retryAfter, now) ==
  CASE retryAfter.kind \in {"absent", "empty"} -> Undef
    [] retryAfter.kind = "seconds" -> Max(0, retryAfter.v * 1000)
    [] retryAfter.kind = "date" -> Max(0, retryAfter.v - now)
    [] OTHER -> Undef

\* A raw header as parseRetryAfter receives it: absent (undefined or null) or
\* a text, a sequence of characters; dateMs is what Date.parse makes of the
\* text (Undef for NaN), which for texts that are not ISO dates is up to the
\* JavaScript engine.
RawHeader(text, dateMs) == [absent |-> FALSE, text |-> text, dateMs |-> dateMs]
AbsentHeader == [absent |-> TRUE, text |-> << >>, dateMs |-> Undef]

Digits == {"0", "1", "2", "3", "4", "5", "6", "7", "8", "9"}

digitValue(ch) ==
  CASE ch = "0" -> 0 [] ch = "1" -> 1 [] ch = "2" -> 2 [] ch = "3" -> 3 [] ch = "4" -> 4
    [] ch = "5" -> 5 [] ch = "6" -> 6 [] ch = "7" -> 7 [] ch = "8" -> 8 [] ch = "9" -> 9

RECURSIVE trimStart(_)
trimStart(s) == IF s # << >> /\ Head(s) = " " THEN trimStart(Tail(s)) ELSE s

RECURSIVE trimEnd(_)
trimEnd(s) ==
  IF s # << >> /\ s[Len(s)] = " " THEN trimEnd(SubSeq(s, 1, Len(s) - 1)) ELSE s

RECURSIVE decimalValue(_)
decimalValue(s) ==
  IF s = << >> THEN 0 ELSE 10 * decimalValue(SubSeq(s, 1, Len(s) - 1)) + digitValue(s[Len(s)])

\* Number(text) on signed decimal integers: white space around the literal is
\* dropped, the empty literal is 0, anything else is NaN
Number(text) ==
  LET t == trimEnd(trimStart(text))
      signed == t # << >> /\ Head(t) \in {"-", "+"}
      body == IF signed THEN Tail(t) ELSE t
  IN IF t = << >> THEN [nan |-> FALSE, v |-> 0]
     ELSE IF body # << >> /\ \A i \in 1..Len(body) : body[i] \in Digits
       THEN [nan |-> FALSE,
             v |-> IF signed /\ Head(t) = "-" THEN 0 - decimalValue(body) ELSE decimalValue(body)]
     ELSE [nan |-> TRUE, v |-> 0]

\* the tests of parseRetryAfter on a raw header: `!retryAfter`, then
\* Number(retryAfter), then Date.parse(retryAfter)
headerValue(h) ==
  IF h.absent THEN RAAbsent
  ELSE IF h.text = << >> THEN RAEmpty
  ELSE IF ~Number(h.text).nan THEN RASeconds(Number(h.text).v)
  ELSE IF h.dateMs # Undef THEN RADate(h.dateMs)
  ELSE RAGarbage

\* parseRetryAfter has not been called directly
NoHeader == << >>
NotParsed == << >>

TimeoutCodes == {"ETIMEDOUT", "ECONNRESET"}

classifyRetry(err, now) ==
  LET status == err.status
      code == IF err.code # "" THEN err.code ELSE err.ecode
      name == err.name
      retryAfterMs == parseRetryAfter(err.retryAfter, now)
  IN IF status = 429
       THEN [shouldRetry |-> TRUE, reason |-> "rate_limit", retryAfterMs |-> retryAfterMs]
     ELSE IF status # 0 /\ status >= 500
       THEN [shouldRetry |-> TRUE, reason |-> "server_error", retryAfterMs |-> retryAfterMs]
     ELSE IF name = "AbortError" \/ code \in TimeoutCodes
       THEN [shouldRetry |-> TRUE, reason |-> "network_timeout", retryAfterMs |-> Undef]
     ELSE [shouldRetry |-> FALSE, reason |-> "non_retryable", retryAfterMs |-> Undef]

\* normalizeError: the class of the Error it returns; "Error" is the generic
\* kind (the raw failure itself, or a plain Error carrying its message).
normalizeError(err, now) ==
  LET status == err.status IN
  IF status = 401 THEN [kind |-> "InvalidApiKeyError", retryAfterMs |-> Undef]
  ELSE IF status = 400 THEN [kind |-> "InvalidRequestError", retryAfterMs |-> Undef]
  ELSE IF status = 429
    THEN [kind |-> "RateLimitError", retryAfterMs |-> parseRetryAfter(err.retryAfter, now)]
  ELSE IF status # 0 /\ status >= 500 THEN [kind |-> "ServerError", retryAfterMs |-> Undef]
  ELSE IF err.name = "AbortError" \/ err.code \in TimeoutCodes
    THEN [kind |-> "NetworkTimeoutError", retryAfterMs |-> Undef]
  ELSE [kind |-> "Error", retryAfterMs |-> Undef]

\* mutant: the backoff fallback without its cap
backoffDelayUncapped(attempt, jitter) == BackoffBaseMs * Pow2(attempt - 1) + jitter

\* Exponential backoff fallback with jitter and a max cap.
backoffDelay(attempt, jitter) ==
  Min(BackoffCapMs, BackoffBaseMs * Pow2(attempt - 1) + jitter)

\* mutant: the backoff cap is applied to Retry-After as well
retryDelayCapped(cr, attempt, jitter) ==
  Min(BackoffCapMs,
      IF cr.retryAfterMs # Undef THEN cr.retryAfterMs
      ELSE BackoffBaseMs * Pow2(attempt - 1) + jitter)

\* the argument of the sleep before the next attempt: the server-provided
\* Retry-After exactly (no jitter, no cap), else the backoff fallback
retryDelay(cr, attempt, jitter) ==
  IF cr.retryAfterMs # Undef THEN cr.retryAfterMs ELSE backoffDelay(attempt, jitter)

\* --------------------------------------------------------- option values
\* A maxRetries value (per-call option or process default): a number, NaN, or
\* undefined (option not given).
Num(n) == [k |-> "num", v |-> n]
NaNValue == [k |-> "nan", v |-> 0]
Undefined == [k |-> "undef", v |-> 0]

\* Math.max(1, NaN) is NaN, and `attempt < NaN` is false for every attempt;
\* 0 stands for that NaN (Math.max(1, n) of a number is never below 1).
NaNAttempts == 0

\* Math.max(1, Number(options.maxRetries ?? this.maxRetries))
computeMaxAttempts(opt, dflt) ==
  LET x == IF opt.k = "undef" THEN dflt ELSE opt
  IN IF x.k = "num" THEN Max(1, x.v) ELSE NaNAttempts

\* while (attempt < maxAttempts)
loopCondition(attempt, maxAttempts) == attempt < maxAttempts

\* mutant: the attempt counter is not incremented
nextAttemptStuck(attempt) == attempt

\* attempt++
nextAttempt(attempt) == attempt + 1

\* ------------------------------------------------------------------ state
VARIABLES
  \* configuration, fixed at construction
  requestsPerMinute,     \* constructor argument
  monthlyBudget,         \* constructor argument, nano-USD
  maxRetries,            \* Number(process.env.OPENAI_MAX_RETRIES || 3)
  fallbackMode,          \* FALLBACK_MODE of the pricing module
  persist,               \* "file" (FileStorage) or "memory" (InMemoryStorage)
  \* environment
  clock,                 \* Date.now()
  nowMonth,              \* getMonthKey(new Date()), months numbered 1, 2, ...
  \* fields of the limiter
  currentMonthKey,
  monthlySpend,
  storage,               \* month-key -> persisted spend, Undef when absent
  lastMinuteTimestamps,
  requestQueue,
  \* one makeRequest call per caller at a time
  pc,                    \* position of the call
  options,               \* options.maxRetries of the call
  attempt,
  maxAttempts,
  lastErr,
  sleepMs,               \* argument of the pending sleep()
  wakeAt,                \* instant the pending sleep is due
  outcome,               \* "none", "ok" or the class of the thrown error
  response,              \* response the call returned
  \* history of the call in progress
  calls,                 \* client.chat invocations made by the call
  failures,              \* failures the call caught
  uniform,               \* all of them were the same failure
  startKey,              \* cached month-key after the call's budget gate
  startSpend,            \* monthlySpend the budget gate compared
  startStore,            \* ledger persisted when the call started
  overBudget,            \* the call sent an attempt with the budget reached
  \* history of the limiter
  admissions,            \* every timestamp ever pushed to the window
  monthBase,             \* spend of the cached month when it was loaded
  monthCosts,            \* sum of the costs recorded against it since
  persisted,             \* outcome of the last save of the cached month
  seqCalls,              \* makeRequest calls started so far
  usageCalls,            \* recordUsage calls made so far
  \* the ledger file of a FileStorage and the writeAll in progress
  platform,              \* process.platform
  file,                  \* the file at this.file
  tmpFile,               \* the temp file of the latest save (each has its own name)
  wstep,                 \* position of the process inside save, or "dead"
  wdata,                 \* the text writeAll is writing
  wthrow,                \* writeAll will rethrow after its finally block
  \* history of the ledger file
  fileBefore,            \* the file when the latest writeAll began
  saveResult,            \* how the latest recordSpend ended
  rmResult,              \* what the cleanup of the latest writeAll did
  lastWritten,           \* month-key -> spend last renamed into place
  ctor,                  \* what the constructor saw and did, until the first save
  \* a direct call of the pricing module
  query,                 \* arguments of estimateCostUSD
  answer,                \* what resolvePricing and estimateCostUSD returned
  \* a direct call of OpenAIClient.chat
  chatCall,              \* its prompt and options
  request,               \* the arguments it passed to sdk.responses.create
  \* a direct call of parseRetryAfter
  retryAfterHeader,      \* the header value it is given
  parsedDelay,           \* the instant of the call and what it returned
  \* the HTTP service in front of the workflow
  RATE_LIMIT_PER_MIN,    \* module constant, from the environment
  buckets,               \* client IP -> timestamps of its allowed requests
  allowedAt,             \* history: client IP -> instants of all its allowed requests
  lastRequest,           \* history: number, IP and response of the latest request
  \* one invoke of a wrapped LangChain runnable per caller at a time
  chainCall              \* caller -> its wrapper, position, events so far and result

config == <<requestsPerMinute, monthlyBudget, maxRetries, fallbackMode, persist>>
env == <<clock, nowMonth>>
ledger == <<currentMonthKey, monthlySpend, storage>>
ledgerHist == <<monthBase, monthCosts, persisted>>
window == <<lastMinuteTimestamps, requestQueue, admissions>>
callState == <<pc, options, attempt, maxAttempts, lastErr, sleepMs, wakeAt, outcome, response>>
callHist == <<calls, failures, uniform, startKey, startSpend, startStore, overBudget>>
counters == <<seqCalls, usageCalls>>
disk == <<platform, file, tmpFile, wstep, wdata, wthrow>>
diskHist == <<fileBefore, saveResult, rmResult, lastWritten, ctor>>
service == <<RATE_LIMIT_PER_MIN, buckets, allowedAt, lastRequest>>
probe == <<query, answer, chatCall, request, retryAfterHeader, parsedDelay, service>>
vars == <<config, env, ledger, ledgerHist, window, callState, callHist, counters,
          disk, diskHist, probe, chainCall>>

Callers == 1..NumCallers
Months == 1..MaxMonth

\* Instants the clock takes: construction, and for each window after it the
\* instant it closes and the millisecond before.
Instants == {0} \cup {k * WindowMs - o : k \in 1..MaxWindows, o \in {0, 1}}
MaxClock == MaxWindows * WindowMs

\* A response of client.chat: the model it reports and its usage block
\* (hasUsage FALSE when `usage` is undefined).
Response(model, hasUsage, p, c) ==
  [model |-> model, hasUsage |-> hasUsage, prompt_tokens |-> p, completion_tokens |-> c]
NoResponse == Response(<< >>, FALSE, 0, 0)

\* the cost retryWithBackoff computes for a response
responseCost(resp, mode) ==
  estimateCostUSD(resp.model,
                  IF resp.hasUsage THEN resp.prompt_tokens ELSE 0,
                  IF resp.hasUsage THEN resp.completion_tokens ELSE 0,
                  mode)

\* ---------------------------------------------------------- spend ledger
\* Storage.load
load(store, monthKey) == store[monthKey]

\* Storage.save; ok FALSE is a save that throws (the file cannot be written)
save(store, monthKey, spend, ok) ==
  IF ok THEN [store EXCEPT ![monthKey] = spend] ELSE store

\* mutant: the key is rotated, the spend of the old month is kept
rotateKeepSpend ==
  [key |-> nowMonth, spend |-> monthlySpend, rotated |-> nowMonth # currentMonthKey]

\* rotateMonthIfNeeded: the cached key and spend it leaves
rotateMonthIfNeeded ==
  IF nowMonth # currentMonthKey
  THEN [key |-> nowMonth,
        spend |-> IF load(storage, nowMonth) # Undef THEN load(storage, nowMonth) ELSE 0,
        rotated |-> TRUE]
  ELSE [key |-> currentMonthKey, spend |-> monthlySpend, rotated |-> FALSE]

\* mutant: the sum is rounded to 5 decimals
addSpendFixed5(spend, deltaUSD) == ((spend + deltaUSD + 5000) \div 10000) * 10000

\* Number((this.monthlySpend + deltaUSD).toFixed(6))
addSpend(spend, deltaUSD) == ToFixed6(spend + deltaUSD)

\* mutant: the delta is added to the persisted value, not to the field
recordSpendFromStore(deltaUSD, saveOk) ==
  LET r == rotateMonthIfNeeded
      stored == IF load(storage, r.key) # Undef THEN load(storage, r.key) ELSE 0
      newSpend == addSpend(stored, deltaUSD)
  IN /\ currentMonthKey' = r.key
     /\ monthlySpend' = newSpend
     /\ storage' = save(storage, r.key, newSpend, saveOk)

\* mutant: a throwing save undoes the addition
recordSpendRollback(deltaUSD, saveOk) ==
  LET r == rotateMonthIfNeeded
      newSpend == IF saveOk THEN addSpend(r.spend, deltaUSD) ELSE r.spend
  IN /\ currentMonthKey' = r.key
     /\ monthlySpend' = newSpend
     /\ storage' = save(storage, r.key, newSpend, saveOk)

\* mutant: the spend is added to the cached month without the rollover check
recordSpendNoRotate(deltaUSD, saveOk) ==
  LET newSpend == addSpend(monthlySpend, deltaUSD)
  IN /\ UNCHANGED currentMonthKey
     /\ monthlySpend' = newSpend
     /\ storage' = save(storage, currentMonthKey, newSpend, saveOk)

\* recordSpend(deltaUSD): rotate, add, save (a throwing save is only logged)
recordSpend(deltaUSD, saveOk) ==
  LET r == rotateMonthIfNeeded
      newSpend == addSpend(r.spend, deltaUSD)
  IN /\ currentMonthKey' = r.key
     /\ monthlySpend' = newSpend
     /\ storage' = save(storage, r.key, newSpend, saveOk)

\* history kept along recordSpend
noteSpend(deltaUSD, saveOk) ==
  LET r == rotateMonthIfNeeded IN
  /\ monthBase' = IF r.rotated THEN r.spend ELSE monthBase
  /\ monthCosts' = IF r.rotated THEN deltaUSD ELSE monthCosts + deltaUSD
  /\ persisted' = IF saveOk THEN "ok" ELSE "failed"

\* a save can only throw in file-backed mode
SaveOutcomes == IF persist = "file" THEN BOOLEAN ELSE {TRUE}

\* mutant: the gate lets a spend equal to the budget through
budgetExceededStrict(spend, budget) == spend > budget

\* if (this.monthlySpend >= this.monthlyBudget)
budgetExceeded(spend, budget) == spend >= budget

\* ------------------------------------------------------------ rate gate
\* mutant: the window is 1 ms short
pruneShort(timestamps, now) == SelectSeq(timestamps, LAMBDA t : now - t < WindowMs - 1)

\* mutant: old timestamps are never dropped
pruneNever(timestamps, now) == timestamps

\* this.lastMinuteTimestamps.filter((t) => now - t < 60_000)
prune(timestamps, now) == SelectSeq(timestamps, LAMBDA t : now - t < WindowMs)

\* mutant: the wait ends 1 ms before the oldest timestamp leaves the window
computeWaitMsEarly(now, oldest) == Max(0, WindowMs - 1 - (now - oldest))

\* Math.max(0, 60_000 - (now - oldest))
computeWaitMs(now, oldest) == Max(0, WindowMs - (now - oldest))

\* the placeholder object a waiting caller pushes to requestQueue
Token(c, now, waitMs) == [owner |-> c, at |-> now, waitMs |-> waitMs]

\* mutant: the placeholder is left in the queue when the sleep ends
removeTokenNever(queue, c) == queue

\* requestQueue.splice(requestQueue.indexOf(token), 1) for the caller's own token
removeToken(queue, c) == SelectSeq(queue, LAMBDA t : t.owner # c)

\* mutant: unlimited mode returns at once but still records the timestamp
unlimitedReturnTracked(c, q) ==
  /\ pc' = [pc EXCEPT ![c] = "admitted"]
  /\ requestQueue' = q
  /\ lastMinuteTimestamps' = Append(prune(lastMinuteTimestamps, clock), clock)
  /\ UNCHANGED <<admissions, sleepMs, wakeAt>>

\* if (this.requestsPerMinute <= 0) return;
unlimitedReturn(c, q) ==
  /\ pc' = [pc EXCEPT ![c] = "admitted"]
  /\ requestQueue' = q
  /\ UNCHANGED <<lastMinuteTimestamps, admissions, sleepMs, wakeAt>>

\* One iteration of the loop of waitForRateLimit, run by caller c at instant
\* `clock` on queue q: return (the call goes on to retryWithBackoff) or push a
\* placeholder and sleep.
waitForRateLimit(c, q) ==
  IF requestsPerMinute <= 0
  THEN unlimitedReturn(c, q)
  ELSE LET pruned == prune(lastMinuteTimestamps, clock) IN
       IF Len(pruned) < requestsPerMinute
       THEN /\ lastMinuteTimestamps' = Append(pruned, clock)
            /\ admissions' = Append(admissions, clock)
            /\ pc' = [pc EXCEPT ![c] = "admitted"]
            /\ requestQueue' = q
            /\ UNCHANGED <<sleepMs, wakeAt>>
       ELSE LET waitMs == computeWaitMs(clock, pruned[1]) IN
            /\ clock + waitMs <= MaxClock
            /\ lastMinuteTimestamps' = pruned
            /\ requestQueue' = Append(q, Token(c, clock, waitMs))
            /\ sleepMs' = [sleepMs EXCEPT ![c] = waitMs]
            /\ wakeAt' = [wakeAt EXCEPT ![c] = clock + waitMs]
            /\ pc' = [pc EXCEPT ![c] = "rate_sleep"]
            /\ UNCHANGED admissions

\* mutant: the rejected call takes a slot of the window before it throws
rejectByBudgetCounted(c) ==
  /\ pc' = [pc EXCEPT ![c] = "done"]
  /\ outcome' = [outcome EXCEPT ![c] = "BudgetExceededError"]
  /\ lastMinuteTimestamps' = Append(lastMinuteTimestamps, clock)
  /\ UNCHANGED <<requestQueue, admissions, sleepMs, wakeAt>>

\* the budget gate of makeRequest throws BudgetExceededError before the
\* admission check
rejectByBudget(c) ==
  /\ pc' = [pc EXCEPT ![c] = "done"]
  /\ outcome' = [outcome EXCEPT ![c] = "BudgetExceededError"]
  /\ UNCHANGED <<window, sleepMs, wakeAt>>

\* makeRequest up to its first suspension: month rollover, budget gate, and
\* the first iteration of waitForRateLimit (an async function runs
\* synchronously until its first await).
makeRequest(c, opt) ==
  /\ pc[c] = "idle"
  /\ seqCalls < MaxCalls
  /\ seqCalls' = seqCalls + 1
  /\ LET r == rotateMonthIfNeeded IN
     /\ currentMonthKey' = r.key
     /\ monthlySpend' = r.spend
     /\ monthBase' = IF r.rotated THEN r.spend ELSE monthBase
     /\ monthCosts' = IF r.rotated THEN 0 ELSE monthCosts
     /\ persisted' = IF r.rotated THEN "none" ELSE persisted
     /\ startKey' = [startKey EXCEPT ![c] = r.key]
     /\ startSpend' = [startSpend EXCEPT ![c] = r.spend]
     /\ startStore' = [startStore EXCEPT ![c] = storage]
     /\ options' = [options EXCEPT ![c] = opt]
     /\ IF budgetExceeded(r.spend, monthlyBudget)
        THEN rejectByBudget(c)
        ELSE /\ waitForRateLimit(c, requestQueue)
             /\ UNCHANGED outcome
  /\ UNCHANGED <<config, probe, chainCall, disk, diskHist, env, storage, attempt, maxAttempts, lastErr, response,
                 calls, failures, uniform, overBudget, usageCalls>>

\* The sleep of a waiting caller ends: it removes its placeholder and runs the
\* loop of waitForRateLimit again.
RateWake(c) ==
  /\ pc[c] = "rate_sleep"
  /\ clock >= wakeAt[c]
  /\ waitForRateLimit(c, removeToken(requestQueue, c))
  /\ UNCHANGED <<config, probe, chainCall, disk, diskHist, env, ledger, ledgerHist, options, attempt, maxAttempts, lastErr,
                 outcome, response, callHist, counters>>

\* ----------------------------------------------------------- retry loop
\* the current-month spend has reached the budget
budgetReached == nowMonth = currentMonthKey /\ monthlySpend >= monthlyBudget

\* performRequest: client.chat is invoked once more
performRequest(c) ==
  /\ calls' = [calls EXCEPT ![c] = @ + 1]
  /\ overBudget' = [overBudget EXCEPT ![c] = @ \/ budgetReached]
  /\ pc' = [pc EXCEPT ![c] = "in_flight"]

\* the loop of retryWithBackoff from its head to the next suspension: the
\* next attempt is sent, or the loop is left and the last failure thrown
attemptLoop(c, m) ==
  IF loopCondition(attempt[c], m)
  THEN /\ attempt' = [attempt EXCEPT ![c] = nextAttempt(@)]
       /\ performRequest(c)
       /\ UNCHANGED outcome
  ELSE /\ pc' = [pc EXCEPT ![c] = "done"]
       /\ outcome' = [outcome EXCEPT ![c] = normalizeError(lastErr[c], clock).kind]
       /\ UNCHANGED <<attempt, calls, overBudget>>

\* retryWithBackoff from its entry to the first `await performRequest`
retryWithBackoff(c) ==
  /\ pc[c] = "admitted"
  /\ LET m == computeMaxAttempts(options[c], maxRetries) IN
     /\ maxAttempts' = [maxAttempts EXCEPT ![c] = m]
     /\ attemptLoop(c, m)
  /\ sleepMs' = [sleepMs EXCEPT ![c] = 0]
  /\ wakeAt' = [wakeAt EXCEPT ![c] = 0]
  /\ UNCHANGED <<config, probe, chainCall, disk, diskHist, env, ledger, ledgerHist, window, options, lastErr,
                 response, failures, uniform, startKey, startSpend, startStore, counters>>

\* mutant: the catch block bills the failed attempt
handleFailureBilled(c, err, jitter) ==
  LET cr == classifyRetry(err, clock) IN
  /\ lastErr' = [lastErr EXCEPT ![c] = err]
  /\ failures' = [failures EXCEPT ![c] = @ + 1]
  /\ uniform' = [uniform EXCEPT ![c] = @ /\ (failures[c] = 0 \/ lastErr[c] = err)]
  /\ recordSpend(1000, TRUE)
  /\ noteSpend(1000, TRUE)
  /\ IF ~cr.shouldRetry \/ attempt[c] >= maxAttempts[c]
     THEN /\ pc' = [pc EXCEPT ![c] = "done"]
          /\ outcome' = [outcome EXCEPT ![c] = normalizeError(err, clock).kind]
          /\ UNCHANGED <<sleepMs, wakeAt>>
     ELSE LET delay == retryDelay(cr, attempt[c], jitter) IN
          /\ clock + delay <= MaxClock
          /\ sleepMs' = [sleepMs EXCEPT ![c] = delay]
          /\ wakeAt' = [wakeAt EXCEPT ![c] = clock + delay]
          /\ pc' = [pc EXCEPT ![c] = "backoff"]
          /\ UNCHANGED outcome

\* mutant: the error thrown is built from lastErr as it was before this failure
handleFailureStale(c, err, jitter) ==
  LET cr == classifyRetry(err, clock)
      thrown == IF failures[c] = 0 THEN err ELSE lastErr[c]
  IN
  /\ lastErr' = [lastErr EXCEPT ![c] = err]
  /\ failures' = [failures EXCEPT ![c] = @ + 1]
  /\ uniform' = [uniform EXCEPT ![c] = @ /\ (failures[c] = 0 \/ lastErr[c] = err)]
  /\ UNCHANGED <<ledger, ledgerHist>>
  /\ IF ~cr.shouldRetry \/ attempt[c] >= maxAttempts[c]
     THEN /\ pc' = [pc EXCEPT ![c] = "done"]
          /\ outcome' = [outcome EXCEPT ![c] = normalizeError(thrown, clock).kind]
          /\ UNCHANGED <<sleepMs, wakeAt>>
     ELSE LET delay == retryDelay(cr, attempt[c], jitter) IN
          /\ clock + delay <= MaxClock
          /\ sleepMs' = [sleepMs EXCEPT ![c] = delay]
          /\ wakeAt' = [wakeAt EXCEPT ![c] = clock + delay]
          /\ pc' = [pc EXCEPT ![c] = "backoff"]
          /\ UNCHANGED outcome

\* the catch block of the loop: classify, then stop or sleep; the ledger is
\* not touched
handleFailure(c, err, jitter) ==
  LET cr == classifyRetry(err, clock) IN
  /\ lastErr' = [lastErr EXCEPT ![c] = err]
  /\ failures' = [failures EXCEPT ![c] = @ + 1]
  /\ uniform' = [uniform EXCEPT ![c] = @ /\ (failures[c] = 0 \/ lastErr[c] = err)]
  /\ UNCHANGED <<ledger, ledgerHist>>
  /\ IF ~cr.shouldRetry \/ attempt[c] >= maxAttempts[c]
     THEN /\ pc' = [pc EXCEPT ![c] = "done"]
          /\ outcome' = [outcome EXCEPT ![c] = normalizeError(err, clock).kind]
          /\ UNCHANGED <<sleepMs, wakeAt>>
     ELSE LET delay == retryDelay(cr, attempt[c], jitter) IN
          /\ clock + delay <= MaxClock
          /\ sleepMs' = [sleepMs EXCEPT ![c] = delay]
          /\ wakeAt' = [wakeAt EXCEPT ![c] = clock + delay]
          /\ pc' = [pc EXCEPT ![c] = "backoff"]
          /\ UNCHANGED outcome

\* mutant: the call is billed a nominal amount when no estimate exists
pricingFailureBilled(c) == handleFailureBilled(c, PricingErr, 0)

\* estimateCostUSD throws inside the try block: its Error is caught like a
\* failure of the request
pricingFailure(c) == handleFailure(c, PricingErr, 0)

\* client.chat resolves with resp: the cost is estimated and recorded, and the
\* response returned; a throwing estimateCostUSD lands in the catch block.
Succeed(c, resp, saveOk) ==
  /\ pc[c] = "in_flight"
  /\ LET e == responseCost(resp, fallbackMode)
     IN IF e.ok
        THEN /\ recordSpend(e.cost, saveOk)
             /\ noteSpend(e.cost, saveOk)
             /\ response' = [response EXCEPT ![c] = resp]
             /\ pc' = [pc EXCEPT ![c] = "done"]
             /\ outcome' = [outcome EXCEPT ![c] = "ok"]
             /\ UNCHANGED <<lastErr, sleepMs, wakeAt, failures, uniform>>
        ELSE /\ pricingFailure(c)
             /\ UNCHANGED response
  /\ UNCHANGED <<config, probe, chainCall, disk, diskHist, env, window, options, attempt, maxAttempts,
                 calls, startKey, startSpend, startStore, overBudget, counters>>

\* client.chat rejects with err
Fail(c, err, jitter) ==
  /\ pc[c] = "in_flight"
  /\ handleFailure(c, err, jitter)
  /\ UNCHANGED <<config, probe, chainCall, disk, diskHist, env, window, options, attempt, maxAttempts, response,
                 calls, startKey, startSpend, startStore, overBudget, counters>>

\* mutant: after the backoff sleep the call passes through the rate gate again
BackoffWakeGated(c) ==
  /\ pc[c] = "backoff"
  /\ clock >= wakeAt[c]
  /\ waitForRateLimit(c, requestQueue)
  /\ UNCHANGED <<config, probe, chainCall, disk, diskHist, env, ledger, ledgerHist, options, attempt,
                 maxAttempts, lastErr, outcome, response, callHist, counters>>

\* The backoff sleep ends and the loop goes round.
BackoffWake(c) ==
  /\ pc[c] = "backoff"
  /\ clock >= wakeAt[c]
  /\ attemptLoop(c, maxAttempts[c])
  /\ sleepMs' = [sleepMs EXCEPT ![c] = 0]
  /\ wakeAt' = [wakeAt EXCEPT ![c] = 0]
  /\ UNCHANGED <<config, probe, chainCall, disk, diskHist, env, ledger, ledgerHist, window, options, maxAttempts, lastErr,
                 response, failures, uniform, startKey, startSpend, startStore, counters>>

\* The caller has its result and may issue its next makeRequest.
Return(c) ==
  /\ pc[c] = "done"
  /\ seqCalls < MaxCalls
  /\ pc' = [pc EXCEPT ![c] = "idle"]
  /\ options' = [options EXCEPT ![c] = Undefined]
  /\ attempt' = [attempt EXCEPT ![c] = 0]
  /\ maxAttempts' = [maxAttempts EXCEPT ![c] = 0]
  /\ lastErr' = [lastErr EXCEPT ![c] = NoErr]
  /\ sleepMs' = [sleepMs EXCEPT ![c] = 0]
  /\ wakeAt' = [wakeAt EXCEPT ![c] = 0]
  /\ outcome' = [outcome EXCEPT ![c] = "none"]
  /\ response' = [response EXCEPT ![c] = NoResponse]
  /\ calls' = [calls EXCEPT ![c] = 0]
  /\ failures' = [failures EXCEPT ![c] = 0]
  /\ uniform' = [uniform EXCEPT ![c] = TRUE]
  /\ startKey' = [startKey EXCEPT ![c] = 0]
  /\ startSpend' = [startSpend EXCEPT ![c] = 0]
  /\ startStore' = [startStore EXCEPT ![c] = [m \in Months |-> Undef]]
  /\ overBudget' = [overBudget EXCEPT ![c] = FALSE]
  /\ UNCHANGED <<config, probe, chainCall, disk, diskHist, env, ledger, ledgerHist, window, counters>>

\* recordUsage(model, promptTokens, completionTokens): bill a call made outside
\* makeRequest; a throwing estimateCostUSD is only logged.
billUsage(model, promptTokens, completionTokens, saveOk) ==
  /\ usageCalls' = usageCalls + 1
  /\ LET e == estimateCostUSD(model, promptTokens, completionTokens, fallbackMode) IN
     IF e.ok THEN recordSpend(e.cost, saveOk) /\ noteSpend(e.cost, saveOk)
     ELSE UNCHANGED <<ledger, ledgerHist>>

\* a recordUsage call made directly on the limiter
recordUsage(model, promptTokens, completionTokens, saveOk) ==
  /\ billUsage(model, promptTokens, completionTokens, saveOk)
  /\ UNCHANGED <<config, probe, chainCall, disk, diskHist, env, window, callState, callHist, seqCalls>>

\* Time passes; the UTC month may change with it.
Tick(t, m) ==
  /\ t > clock
  /\ m >= nowMonth
  /\ clock' = t
  /\ nowMonth' = m
  /\ UNCHANGED <<config, probe, chainCall, disk, diskHist, ledger, ledgerHist, window, callState, callHist, counters>>

\* ---------------------------------------------------- LangChain wrappers
\* A usage object: each key holds a number or is absent (Undef); isNull marks
\* a null or missing object, which `||` skips.
Usage(pt, ct, tt, it, ot) ==
  [isNull |-> FALSE, prompt_tokens |-> pt, completion_tokens |-> ct, total_tokens |-> tt,
   input_tokens |-> it, output_tokens |-> ot]
NullUsage == [Usage(Undef, Undef, Undef, Undef, Undef) EXCEPT !.isNull = TRUE]
EmptyUsage == Usage(Undef, Undef, Undef, Undef, Undef)

\* response_metadata of a message; an absent model name is the empty string
ResponseMetadata(model, model_name, modelId, token_usage, usage, tokenUsage) ==
  [isNull |-> FALSE, model |-> model, model_name |-> model_name, modelId |-> modelId,
   token_usage |-> token_usage, usage |-> usage, tokenUsage |-> tokenUsage]
NullMetadata ==
  [ResponseMetadata(<< >>, << >>, << >>, NullUsage, NullUsage, NullUsage) EXCEPT !.isNull = TRUE]

\* what the underlying model resolves with
Message(content, usage_metadata, response_metadata, lc_usage) ==
  [content |-> content, usage_metadata |-> usage_metadata,
   response_metadata |-> response_metadata, lc_usage |-> lc_usage]
NoMessage == Message("", NullUsage, NullMetadata, NullUsage)

\* a ?? b on numbers
Coalesce(a, b) == IF a # Undef THEN a ELSE b

\* a || b on usage objects, and on strings
OrUsage(a, b) == IF ~a.isNull THEN a ELSE b
OrName(a, b) == IF a # << >> THEN a ELSE b

\* typeof x === 'number'
IsNumber(x) == x # Undef

\* extractModelAndUsage(output, fallbackModel)
extractModelAndUsage(output, fallbackModel) ==
  LET rm == IF output.response_metadata.isNull
            THEN ResponseMetadata(<< >>, << >>, << >>, NullUsage, NullUsage, NullUsage)
            ELSE output.response_metadata
      direct == OrUsage(output.usage_metadata, EmptyUsage)
      nested == OrUsage(rm.token_usage, OrUsage(rm.usage, EmptyUsage))
  IN [model |-> OrName(rm.model, OrName(rm.model_name, OrName(rm.modelId, fallbackModel))),
      promptTokens |-> Coalesce(direct.prompt_tokens, Coalesce(direct.input_tokens,
                         Coalesce(nested.prompt_tokens, nested.input_tokens))),
      completionTokens |-> Coalesce(direct.completion_tokens, Coalesce(direct.output_tokens,
                         Coalesce(nested.completion_tokens, nested.output_tokens))),
      totalTokens |-> Coalesce(direct.total_tokens, nested.total_tokens)]

\* hasAnyUsageOrResponseMetadata(x): the key is present, whatever it holds
hasAnyUsageOrResponseMetadata(output) ==
  ~output.response_metadata.isNull \/ ~output.usage_metadata.isNull

\* the usage object withRateLimiter reads from the output
adapterUsage(output) ==
  OrUsage(output.usage_metadata,
          OrUsage(IF output.response_metadata.isNull THEN NullUsage
                  ELSE output.response_metadata.tokenUsage,
                  output.lc_usage))

\* The invoke of a wrapped runnable that a caller has in progress; chainCall
\* maps the callers that have one to it.
\* (events: the calls it has made and how it ended; output: what the model
\* resolved with; result: what the invoke resolved with; err: what it rejected
\* with; log: the level of the line it logged; recorded: the arguments of its
\* recordUsage calls)
Invoke(wrapper, name, step, events, output, result, err, log, recorded) ==
  [wrapper |-> wrapper, name |-> name, step |-> step, events |-> events,
   output |-> output, result |-> result, err |-> err, log |-> log, recorded |-> recorded]

\* the arguments of one recordUsage call
UsageArgs(model, promptTokens, completionTokens) ==
  [model |-> model, promptTokens |-> promptTokens, completionTokens |-> completionTokens]

\* wrapped.invoke(input): the sequence starts with the gate step
invoke(c, wrapper, name) ==
  /\ pc[c] = "idle"
  /\ c \notin DOMAIN chainCall
  /\ seqCalls < MaxCalls
  /\ seqCalls' = seqCalls + 1
  /\ chainCall' = chainCall @@
       (c :> Invoke(wrapper, name, "gate", << >>, NoMessage, NoMessage, NoErr, "none", << >>))
  /\ UNCHANGED <<config, probe, disk, diskHist, env, ledger, ledgerHist, window, callState,
                 callHist, usageCalls>>

\* await limiter.waitForRateLimit(): the call, up to its first suspension
gate(c) ==
  /\ pc[c] = "idle"
  /\ c \in DOMAIN chainCall
  /\ chainCall[c].step = "gate"
  /\ chainCall[c].events = << >>
  /\ waitForRateLimit(c, requestQueue)
  /\ chainCall' = [chainCall EXCEPT ![c].events = Append(@, "waitForRateLimit")]
  /\ UNCHANGED <<config, probe, disk, diskHist, env, ledger, ledgerHist, options, attempt,
                 maxAttempts, lastErr, outcome, response, callHist, counters>>

\* waitForRateLimit has returned: the next step of the sequence invokes the
\* underlying model
invokeModel(c) ==
  /\ pc[c] = "admitted"
  /\ c \in DOMAIN chainCall
  /\ chainCall[c].step = "gate"
  /\ pc' = [pc EXCEPT ![c] = "idle"]
  /\ sleepMs' = [sleepMs EXCEPT ![c] = 0]
  /\ wakeAt' = [wakeAt EXCEPT ![c] = 0]
  /\ chainCall' = [chainCall EXCEPT ![c].step = "model",
                                    ![c].events = Append(@, "model.invoke")]
  /\ UNCHANGED <<config, probe, disk, diskHist, env, ledger, ledgerHist, window, options,
                 attempt, maxAttempts, lastErr, outcome, response, callHist, counters>>

\* mutant: the cost step bills the limiter
logCostBilled(c, output) ==
  LET x == extractModelAndUsage(output, chainCall[c].name)
      e == estimateCostUSD(x.model, Max(x.promptTokens, 0), Max(x.completionTokens, 0),
                           fallbackMode)
  IN /\ chainCall' = [chainCall EXCEPT ![c].step = "done", ![c].output = output,
                                       ![c].result = output, ![c].log = "info",
                                       ![c].events = Append(@, "return")]
     /\ recordSpend(IF e.ok THEN e.cost ELSE 0, TRUE)
     /\ noteSpend(IF e.ok THEN e.cost ELSE 0, TRUE)
     /\ UNCHANGED usageCalls

\* the logCost step of withOpenAIRateLimit: estimate and log the cost when the
\* model and both token counts are known, and return the output
logCost(c, output) ==
  LET x == extractModelAndUsage(output, chainCall[c].name)
      complete == x.model # << >> /\ IsNumber(x.promptTokens) /\ IsNumber(x.completionTokens)
      threw == complete /\ ~estimateCostUSD(x.model, x.promptTokens, x.completionTokens,
                                            fallbackMode).ok
      level == IF complete THEN (IF threw THEN "warn" ELSE "info")
               ELSE IF /\ hasAnyUsageOrResponseMetadata(output)
                       /\ \/ IsNumber(x.promptTokens)
                          \/ IsNumber(x.completionTokens)
                          \/ IsNumber(x.totalTokens)
                    THEN "debug" ELSE "none"
  IN /\ chainCall' = [chainCall EXCEPT ![c].step = "done", ![c].output = output,
                                       ![c].result = output, ![c].log = level,
                                       ![c].events = Append(@, "return")]
     /\ UNCHANGED <<ledger, ledgerHist, usageCalls>>

\* mutant: the usage is recorded before the token counts are looked at
trackUnchecked(c, output, saveOk) ==
  LET usage == adapterUsage(output)
      promptTokens == Coalesce(usage.prompt_tokens, usage.input_tokens)
      completionTokens == Coalesce(usage.completion_tokens, usage.output_tokens)
  IN /\ chainCall' = [chainCall EXCEPT ![c].step = "done", ![c].output = output,
                                       ![c].result = output, ![c].log = "info",
                                       ![c].events = Append(Append(@, "recordUsage"), "return"),
                                       ![c].recorded = Append(@, UsageArgs(chainCall[c].name,
                                            Max(promptTokens, 0), Max(completionTokens, 0)))]
     /\ billUsage(chainCall[c].name, Max(promptTokens, 0), Max(completionTokens, 0), saveOk)

\* the try block of withRateLimiter: read the usage, estimate the cost, record
\* it through limiter.recordUsage, and return the output
track(c, output, saveOk) ==
  LET usage == adapterUsage(output)
      promptTokens == Coalesce(usage.prompt_tokens, usage.input_tokens)
      completionTokens == Coalesce(usage.completion_tokens, usage.output_tokens)
      numeric == ~usage.isNull /\ IsNumber(promptTokens) /\ IsNumber(completionTokens)
      threw == numeric /\ ~estimateCostUSD(chainCall[c].name, promptTokens, completionTokens,
                                           fallbackMode).ok
  IN IF numeric /\ ~threw
     THEN /\ chainCall' = [chainCall EXCEPT ![c].step = "done", ![c].output = output,
                             ![c].result = output, ![c].log = "info",
                             ![c].events = Append(Append(@, "recordUsage"), "return"),
                             ![c].recorded = Append(@, UsageArgs(chainCall[c].name,
                                                    promptTokens, completionTokens))]
          /\ billUsage(chainCall[c].name, promptTokens, completionTokens, saveOk)
     ELSE /\ chainCall' = [chainCall EXCEPT ![c].step = "done", ![c].output = output,
                             ![c].result = output,
                             ![c].log = IF threw THEN "warn" ELSE "none",
                             ![c].events = Append(@, "return")]
          /\ UNCHANGED <<ledger, ledgerHist, usageCalls>>

\* the underlying model resolves with `output`; the rest of the wrapper runs
modelResolves(c, output, saveOk) ==
  /\ c \in DOMAIN chainCall
  /\ chainCall[c].step = "model"
  /\ IF chainCall[c].wrapper = "withOpenAIRateLimit"
     THEN logCost(c, output)
     ELSE track(c, output, saveOk)
  /\ UNCHANGED <<config, probe, disk, diskHist, env, window, callState, callHist, seqCalls>>

\* mutant: a failed model is invoked once more
modelRejectsRetried(c, err) ==
  /\ chainCall' = [chainCall EXCEPT ![c].step = "done", ![c].err = err,
                                    ![c].events = Append(Append(@, "model.invoke"), "throw")]

\* the underlying model rejects: nothing catches it, the invoke rejects with it
modelRejects(c, err) ==
  /\ chainCall' = [chainCall EXCEPT ![c].step = "done", ![c].err = err,
                                    ![c].events = Append(@, "throw")]

\* the underlying model rejects with err
modelFails(c, err) ==
  /\ c \in DOMAIN chainCall
  /\ chainCall[c].step = "model"
  /\ modelRejects(c, err)
  /\ UNCHANGED <<config, probe, disk, diskHist, env, ledger, ledgerHist, window, callState,
                 callHist, counters>>

\* the caller has the result of its invoke and may start the next one
invokeReturn(c) ==
  /\ c \in DOMAIN chainCall
  /\ chainCall[c].step = "done"
  /\ seqCalls < MaxCalls
  /\ chainCall' = [d \in DOMAIN chainCall \ {c} |-> chainCall[d]]
  /\ UNCHANGED <<config, probe, disk, diskHist, env, ledger, ledgerHist, window, callState,
                 callHist, counters>>


\* ---------------------------------------------------------- OpenAIClient
\* Values of options and request parameters are written as short sequences
\* of strings; Absent is a key that is not there, UndefinedValue a key that
\* holds `undefined`.
Absent == << >>
UndefinedValue == <<"undefined">>

\* the keys a request to responses.create is observed on: the four the client
\* sets, two of the Chat Completions API, and one unrelated knob
CoreKeys == {"model", "input", "temperature", "max_output_tokens"}
RequestKeys == CoreKeys \cup {"messages", "max_tokens", "foo"}

\* process.env.OPENAI_MODEL || 'gpt-4o-mini', with the variable unset
DefaultModel == <<"gpt-4o-mini">>
DefaultTemperature == <<"0.2">>

\* an object without keys
EmptyObject == [k \in RequestKeys |-> Absent]

\* { ...a, ...b }: keys of b win
Spread(a, b) == [k \in RequestKeys |-> IF b[k] # Absent THEN b[k] ELSE a[k]]

\* mapChatMessagesToResponsesInput(msgs): one input item per message
mapChatMessagesToResponsesInput(msgs) == <<"items">> \o msgs

\* the prompt argument: a string or an array of messages
Prompt(isArray, v) == [isArray |-> isArray, v |-> v]

ChatOptions(model, temperature, maxTokens, timeoutMs, messages, extra) ==
  [model |-> model, temperature |-> temperature, maxTokens |-> maxTokens,
   timeoutMs |-> timeoutMs, messages |-> messages, extra |-> extra]

\* before the first call: no arguments, nothing sent
NoChat == [called |-> FALSE]
NoRequest == [sent |-> FALSE]

\* the two arguments of this.sdk.responses.create(...) that chat builds
buildRequest(prompt, opts) ==
  LET messages == IF opts.messages # Absent THEN opts.messages
                  ELSE IF prompt.isArray THEN prompt.v
                  ELSE <<"user">> \o prompt.v
      model == IF opts.model # Absent THEN opts.model ELSE DefaultModel
      temperature == IF opts.temperature # Absent THEN opts.temperature
                     ELSE DefaultTemperature
      input == IF opts.messages # Absent \/ prompt.isArray
               THEN mapChatMessagesToResponsesInput(messages)
               ELSE prompt.v
      core == [k \in RequestKeys |->
                 CASE k = "model" -> model
                   [] k = "input" -> input
                   [] k = "temperature" -> temperature
                   [] k = "max_output_tokens" ->
                        IF opts.maxTokens # Absent THEN opts.maxTokens
                        ELSE UndefinedValue
                   [] OTHER -> Absent]
  IN [sent |-> TRUE, params |-> Spread(core, opts.extra),
      timeout |-> IF opts.timeoutMs # Absent THEN opts.timeoutMs ELSE UndefinedValue]

\* chat(prompt, opts) up to `await this.sdk.responses.create(...)`
chat(prompt, opts) ==
  /\ chatCall' = [called |-> TRUE, prompt |-> prompt, options |-> opts]
  /\ request' = buildRequest(prompt, opts)
  /\ UNCHANGED <<config, env, ledger, ledgerHist, window, callState, callHist,
                 counters, disk, diskHist, service, query, answer, chainCall,
                 retryAfterHeader, parsedDelay>>

\* ---------------------------------------------------------- HTTP service
\* Math.max(1, Number(process.env.RATE_LIMIT_PER_MIN || 10)) for an unset
\* variable (Undefined) or a numeric text
rateLimitPerMin(envValue) == Max(1, IF envValue.k = "undef" THEN 10 ELSE envValue.v)

\* buckets.get(ip) || { timestamps: [] }
bucketOf(bk, ip) == IF ip \in DOMAIN bk THEN bk[ip] ELSE << >>

\* buckets.set(ip, bucket)
setBucket(bk, ip, timestamps) == (ip :> timestamps) @@ bk

\* mutant: a rejected request is counted in the bucket too
rateLimitCounting(bk, ip, now) ==
  LET pruned == SelectSeq(bucketOf(bk, ip), LAMBDA t : now - t < windowMs)
  IN [allowed |-> Len(pruned) < RATE_LIMIT_PER_MIN,
      retryAfterMs |-> IF Len(pruned) >= RATE_LIMIT_PER_MIN
                       THEN Max(0, windowMs - (now - pruned[1])) ELSE Undef,
      buckets |-> setBucket(bk, ip, Append(pruned, now))]

\* rateLimit(ip) at instant now: its result and the map it leaves
rateLimit(bk, ip, now) ==
  LET pruned == SelectSeq(bucketOf(bk, ip), LAMBDA t : now - t < windowMs)
  IN IF Len(pruned) >= RATE_LIMIT_PER_MIN
     THEN [allowed |-> FALSE,
           retryAfterMs |-> Max(0, windowMs - (now - pruned[1])),
           buckets |-> setBucket(bk, ip, pruned)]
     ELSE [allowed |-> TRUE, retryAfterMs |-> Undef,
           buckets |-> setBucket(bk, ip, Append(pruned, now))]

\* no request has been received
NoRequestYet == [n |-> 0]

\* the service has just been started and the limiter's process runs no HTTP
\* service
NoService ==
  /\ RATE_LIMIT_PER_MIN = rateLimitPerMin(Undefined)
  /\ buckets = << >>
  /\ allowedAt = << >>
  /\ lastRequest = NoRequestYet

\* POST /process-correction from ip: authorize, rateLimit, then the workflow,
\* which ends with `status` (200, 400 for a body of the wrong shape, 500) and
\* does not touch the buckets
processCorrection(ip, authorized, status) ==
  /\ lastRequest.n < MaxRequests
  /\ IF ~authorized
     THEN /\ lastRequest' = [n |-> lastRequest.n + 1, ip |-> ip, status |-> 401, retryAfter |-> Undef]
          /\ UNCHANGED <<buckets, allowedAt>>
     ELSE LET limit == rateLimit(buckets, ip, clock) IN
          /\ buckets' = limit.buckets
          /\ IF ~limit.allowed
             THEN /\ lastRequest' = [n |-> lastRequest.n + 1, ip |-> ip, status |-> 429,
                                     retryAfter |-> (limit.retryAfterMs + 999) \div 1000]
                  /\ UNCHANGED allowedAt
             ELSE /\ lastRequest' = [n |-> lastRequest.n + 1, ip |-> ip, status |-> status,
                                     retryAfter |-> Undef]
                  /\ allowedAt' = (ip :> Append(bucketOf(allowedAt, ip), clock)) @@ allowedAt
  /\ UNCHANGED <<config, env, ledger, ledgerHist, window, callState, callHist,
                 counters, disk, diskHist, query, answer, chainCall, chatCall, request,
                 retryAfterHeader, parsedDelay, RATE_LIMIT_PER_MIN>>

\* ----------------------------------------------------------- ledger file
\* A file is absent or holds a text; a text is a sequence of JSON tokens.
LBrace == [t |-> "{", k |-> 0, v |-> 0]
RBrace == [t |-> "}", k |-> 0, v |-> 0]
NullTok == [t |-> "null", k |-> 0, v |-> 0]
Entry(key, value) == [t |-> "entry", k |-> key, v |-> value]

NoFile == [exists |-> FALSE, text |-> << >>]
FileOf(text) == [exists |-> TRUE, text |-> text]

\* the object {} as a map month-key -> number, Undef when the key is absent
EmptyLedger == [m \in Months |-> Undef]

RECURSIVE entriesFrom(_, _)
entriesFrom(data, m) ==
  IF m > MaxMonth THEN << >>
  ELSE (IF data[m] # Undef THEN <<Entry(m, data[m])>> ELSE << >>)
         \o entriesFrom(data, m + 1)

\* JSON.stringify(data, null, 2) of a ledger object
JSONstringify(data) == <<LBrace>> \o entriesFrom(data, 1) \o <<RBrace>>

\* JSON.parse(text): throws on a torn or empty text, yields null for the text
\* `null`, and an object for a brace-enclosed list of entries (the last entry
\* of a key wins)
JSONparse(text) ==
  LET n == Len(text)
      wellFormed == /\ n >= 2
                    /\ text[1] = LBrace
                    /\ text[n] = RBrace
                    /\ \A i \in 2..(n - 1) : text[i].t = "entry" /\ text[i].k \in Months
      valueOf(m) == LET at == {i \in 2..(n - 1) : text[i].k = m}
                    IN IF at = {} THEN Undef
                       ELSE text[CHOOSE i \in at : \A j \in at : j <= i].v
  IN IF text = <<NullTok>> THEN [threw |-> FALSE, null |-> TRUE, obj |-> EmptyLedger]
     ELSE IF wellFormed THEN [threw |-> FALSE, null |-> FALSE,
                              obj |-> [m \in Months |-> valueOf(m)]]
     ELSE [threw |-> TRUE, null |-> FALSE, obj |-> EmptyLedger]

\* FileStorage.readAll: {} when the file is absent, when reading it throws
\* (readOk = FALSE) and when parsing it throws; otherwise whatever JSON.parse
\* returned, the value null included
readAll(f, readOk) ==
  IF ~f.exists THEN [null |-> FALSE, obj |-> EmptyLedger]
  ELSE IF ~readOk THEN [null |-> FALSE, obj |-> EmptyLedger]
  ELSE LET parsed == JSONparse(IF f.text = << >> THEN JSONstringify(EmptyLedger)
                               ELSE f.text)
       IN IF parsed.threw THEN [null |-> FALSE, obj |-> EmptyLedger]
          ELSE [null |-> parsed.null, obj |-> parsed.obj]

\* FileStorage.load: all[monthKey] throws a TypeError when all is null
FileStorage_load(f, readOk, monthKey) ==
  LET all == readAll(f, readOk)
  IN IF all.null THEN [threw |-> TRUE, value |-> Undef]
     ELSE [threw |-> FALSE, value |-> all.obj[monthKey]]

\* the entry of month-key m a reader of the file finds
persistedValue(f, m) == readAll(f, TRUE).obj[m]

\* the constructor over a FileStorage: the load may throw out of it
constructor(f, readOk, monthKey) ==
  LET loaded == FileStorage_load(f, readOk, monthKey)
  IN [threw |-> loaded.threw,
      spend |-> IF ~loaded.threw /\ loaded.value # Undef THEN loaded.value ELSE 0,
      readOk |-> readOk \/ ~f.exists,
      saw |-> f,
      fresh |-> TRUE]

\* the instance has recorded a spend since it was constructed
NotFresh == [threw |-> FALSE, spend |-> 0, readOk |-> TRUE, saw |-> NoFile, fresh |-> FALSE]

\* recordSpend over a FileStorage, from its entry to the first write to the
\* file system: rotateMonthIfNeeded (whose load may throw out of recordSpend
\* with the key already replaced), the addition, and save up to the creation
\* of the temp file (readAll, the assignment all[K] = spend that throws on
\* null, mkdirSync, JSON.stringify).
recordSpendFile(deltaUSD, rotateReadOk, saveReadOk, mkdirOk) ==
  /\ wstep = "idle"
  /\ seqCalls < MaxCalls
  /\ seqCalls' = seqCalls + 1
  /\ currentMonthKey' = nowMonth
  /\ ctor' = NotFresh
  /\ LET rotated == nowMonth # currentMonthKey
         loaded == FileStorage_load(file, rotateReadOk, nowMonth)
         base == IF ~rotated THEN monthlySpend
                 ELSE IF loaded.value # Undef THEN loaded.value ELSE 0
         spend == addSpend(base, deltaUSD)
         all == readAll(file, saveReadOk)
     IN IF rotated /\ loaded.threw
        THEN /\ saveResult' = "rotate_threw"
             /\ UNCHANGED <<monthlySpend, wstep, wdata, tmpFile, fileBefore, rmResult>>
        ELSE /\ monthlySpend' = spend
             /\ IF all.null \/ ~mkdirOk
                THEN /\ saveResult' = "threw"
                     /\ tmpFile' = NoFile
                     /\ rmResult' = "none"
                     /\ UNCHANGED <<wstep, wdata, fileBefore>>
                ELSE /\ wdata' = JSONstringify([all.obj EXCEPT ![nowMonth] = spend])
                     /\ wstep' = "write"
                     /\ fileBefore' = file
                     /\ tmpFile' = NoFile
                     /\ rmResult' = "none"
                     /\ saveResult' = "none"
  /\ UNCHANGED <<config, probe, chainCall, env, storage, ledgerHist, window, callState, callHist,
                 usageCalls, platform, file, wthrow, lastWritten>>

\* the steps of writeAll after the temp name is chosen
WriteResults == {"ok", "partial", "none"}
RenameResults == {"ok", "EPERM", "EIO"}

\* fs.writeFileSync(tmp, json): complete, torn, or nothing created
writeFileSync(res) ==
  /\ wstep = "write"
  /\ tmpFile' = CASE res = "ok" -> FileOf(wdata)
                  [] res = "partial" -> FileOf(SubSeq(wdata, 1, Len(wdata) - 1))
                  [] OTHER -> NoFile
  /\ wstep' = IF res = "ok" THEN "rename" ELSE "cleanup"
  /\ wthrow' = (res # "ok")
  /\ UNCHANGED <<config, probe, chainCall, env, ledger, ledgerHist, window, callState, callHist,
                 counters, platform, file, wdata, diskHist>>

\* fs.renameSync(tmp, this.file) replaces the destination in one step
renamed ==
  /\ file' = tmpFile
  /\ tmpFile' = NoFile
  /\ lastWritten' = [lastWritten EXCEPT ![currentMonthKey] = monthlySpend]
  /\ wstep' = "cleanup"
  /\ wthrow' = FALSE

\* the first renameSync and the choice its catch block makes
renameSync(res) ==
  /\ wstep = "rename"
  /\ IF res = "ok" THEN renamed
     ELSE /\ IF platform = "win32" /\ res = "EPERM"
             THEN wstep' = "fallback_rm" /\ wthrow' = FALSE
             ELSE wstep' = "cleanup" /\ wthrow' = TRUE
          /\ UNCHANGED <<file, tmpFile, lastWritten>>
  /\ UNCHANGED <<config, probe, chainCall, env, ledger, ledgerHist, window, callState, callHist,
                 counters, platform, wdata, fileBefore, saveResult, rmResult, ctor>>

\* try { fs.rmSync(this.file, { force: true }) } catch {}
fallbackRm(ok) ==
  /\ wstep = "fallback_rm"
  /\ file' = IF ok THEN NoFile ELSE file
  /\ wstep' = "fallback_rename"
  /\ UNCHANGED <<config, probe, chainCall, env, ledger, ledgerHist, window, callState, callHist,
                 counters, platform, tmpFile, wdata, wthrow, diskHist>>

\* the second fs.renameSync(tmp, this.file), whose error leaves writeAll
fallbackRename(ok) ==
  /\ wstep = "fallback_rename"
  /\ IF ok THEN renamed
     ELSE /\ wstep' = "cleanup"
          /\ wthrow' = TRUE
          /\ UNCHANGED <<file, tmpFile, lastWritten>>
  /\ UNCHANGED <<config, probe, chainCall, env, ledger, ledgerHist, window, callState, callHist,
                 counters, platform, wdata, fileBefore, saveResult, rmResult, ctor>>

\* mutant: writeAll without its finally block
cleanupSkipped(ok) ==
  /\ UNCHANGED tmpFile
  /\ rmResult' = "none"

\* finally { try { fs.rmSync(tmp, { force: true }) } catch {} }
cleanupTmp(ok) ==
  /\ tmpFile' = IF ok THEN NoFile ELSE tmpFile
  /\ rmResult' = IF ~tmpFile.exists THEN "absent" ELSE IF ok THEN "removed" ELSE "failed"

\* the finally block of writeAll, and the return or rethrow to recordSpend,
\* whose catch block only warns
cleanup(ok) ==
  /\ wstep = "cleanup"
  /\ cleanupTmp(ok)
  /\ saveResult' = IF wthrow THEN "threw" ELSE "ok"
  /\ wstep' = "idle"
  /\ wthrow' = FALSE
  /\ wdata' = << >>
  /\ fileBefore' = file
  /\ UNCHANGED <<config, probe, chainCall, env, ledger, ledgerHist, window, callState, callHist,
                 counters, platform, file, lastWritten, ctor>>

\* the process dies between two system calls of writeAll
Crash ==
  /\ wstep \notin {"idle", "dead"}
  /\ wstep' = "dead"
  /\ wthrow' = FALSE
  /\ saveResult' = "crashed"
  /\ UNCHANGED <<config, probe, chainCall, env, ledger, ledgerHist, window, callState, callHist,
                 counters, platform, file, tmpFile, wdata, fileBefore, rmResult,
                 lastWritten, ctor>>

\* new OpenAIRateLimiter(...) on the same file, in a new process or in the
\* old one; the model follows the newest instance ("dead" when it has none)
Restart(readOk) ==
  /\ wstep \in {"idle", "dead"}
  /\ LET c == constructor(file, readOk, nowMonth) IN
     /\ ctor' = c
     /\ currentMonthKey' = nowMonth
     /\ monthlySpend' = c.spend
     /\ wstep' = IF c.threw THEN "dead" ELSE "idle"
  /\ wdata' = << >>
  /\ fileBefore' = file
  /\ UNCHANGED <<config, probe, chainCall, env, storage, ledgerHist, window, callState, callHist,
                 counters, platform, file, tmpFile, wthrow, saveResult, rmResult,
                 lastWritten>>

\* ------------------------------------------------------------ input sets
\* cost of the response of the test suite: gpt-4o-mini, 100 prompt and 50
\* completion tokens
UnitCost == estimateCostUSD(GPT_4O_MINI, 100, 50, "mini").cost

MiniResponse == Response(GPT_4O_MINI, TRUE, 100, 50)

\* responses a single call is tried on
Responses ==
  { MiniResponse,
    Response(GPT_4O_MINI, FALSE, 0, 0),
    Response(GPT_4O, TRUE, 1, 0),
    Response(UNKNOWN_MODEL, TRUE, 100, 50) }

\* failures a single call is tried on: each status alone, each timeout signal
\* alone, Retry-After in each of its forms, and shapes that carry both a
\* status and a timeout signal
Failures ==
  { Failure(400, "Error", "", "", RAAbsent),
    Failure(401, "Error", "", "", RAAbsent),
    Failure(429, "Error", "", "", RAAbsent),
    Failure(429, "Error", "", "", RASeconds(0)),
    Failure(429, "Error", "", "", RASeconds(60)),
    Failure(429, "Error", "", "", RAGarbage),
    Failure(503, "Error", "", "", RASeconds(0)),
    Failure(503, "Error", "", "", RADate(WindowMs)),
    Failure(0, "AbortError", "", "", RAAbsent),
    Failure(0, "Error", "ETIMEDOUT", "", RAAbsent),
    Failure(0, "Error", "", "ECONNRESET", RAAbsent),
    Failure(0, "Error", "", "", RAAbsent),
    Failure(401, "AbortError", "", "", RAAbsent),
    Failure(0, "AbortError", "", "", RASeconds(0)) }

Jitters == {0, JitterRange - 1}

CallOptions == {Undefined, Num(0), Num(2)}

\* failures, jitter and options concurrent calls are tried on
ConcFailures ==
  { Failure(401, "Error", "", "", RAAbsent),
    Failure(429, "Error", "", "", RASeconds(0)) }

\* ledgers a budget file may hold at construction
InitLedgers ==
  { [m \in Months |-> IF m = 1 THEN UnitCost ELSE Undef],
    [m \in Months |-> IF m = 1 THEN 3 * UnitCost ELSE UnitCost] }

\* -------------------------------------------------------- specifications
\* the fields the constructor sets whatever the store holds
Fields(rpm, budget, dflt, mode, pers) ==
  /\ requestsPerMinute = rpm
  /\ monthlyBudget = budget
  /\ maxRetries = dflt
  /\ fallbackMode = mode
  /\ persist = pers
  /\ clock = 0
  /\ nowMonth = 1
  /\ monthBase = monthlySpend
  /\ monthCosts = 0
  /\ persisted = "none"
  /\ lastMinuteTimestamps = << >>
  /\ requestQueue = << >>
  /\ admissions = << >>
  /\ pc = [c \in Callers |-> "idle"]
  /\ options = [c \in Callers |-> Undefined]
  /\ attempt = [c \in Callers |-> 0]
  /\ maxAttempts = [c \in Callers |-> 0]
  /\ lastErr = [c \in Callers |-> NoErr]
  /\ sleepMs = [c \in Callers |-> 0]
  /\ wakeAt = [c \in Callers |-> 0]
  /\ outcome = [c \in Callers |-> "none"]
  /\ response = [c \in Callers |-> NoResponse]
  /\ calls = [c \in Callers |-> 0]
  /\ failures = [c \in Callers |-> 0]
  /\ uniform = [c \in Callers |-> TRUE]
  /\ startKey = [c \in Callers |-> 0]
  /\ startSpend = [c \in Callers |-> 0]
  /\ startStore = [c \in Callers |-> [m \in Months |-> Undef]]
  /\ overBudget = [c \in Callers |-> FALSE]
  /\ seqCalls = 0
  /\ usageCalls = 0
  /\ query = NoQuery
  /\ answer = NoAnswer
  /\ chainCall = << >>
  /\ chatCall = NoChat
  /\ request = NoRequest
  /\ retryAfterHeader = NoHeader
  /\ parsedDelay = NotParsed

\* no FileStorage is in use
NoDisk ==
  /\ platform = "posix"
  /\ file = NoFile
  /\ tmpFile = NoFile
  /\ wstep = "idle"
  /\ wdata = << >>
  /\ wthrow = FALSE
  /\ fileBefore = NoFile
  /\ saveResult = "none"
  /\ rmResult = "none"
  /\ lastWritten = EmptyLedger
  /\ ctor = constructor(NoFile, TRUE, 1)

\* the state the constructor leaves
Constructed(rpm, budget, dflt, mode, pers, store) ==
  /\ NoDisk
  /\ NoService
  /\ storage = store
  /\ currentMonthKey = 1
  /\ monthlySpend = IF load(store, 1) # Undef THEN load(store, 1) ELSE 0
  /\ Fields(rpm, budget, dflt, mode, pers)

\* Concurrent callers of one rate-limited limiter whose budget is never
\* reached.
Init ==
  \E rpm \in {-1, 0, 1, 2} :
    Constructed(rpm, 3 * UnitCost, Num(2), "mini", "file", [m \in Months |-> Undef])

Next ==
  \/ \E c \in Callers : makeRequest(c, Undefined)
  \/ \E c \in Callers : RateWake(c)
  \/ \E c \in Callers : retryWithBackoff(c)
  \/ \E c \in Callers : Succeed(c, MiniResponse, TRUE)
  \/ \E c \in Callers : Fail(c, Failure(401, "Error", "", "", RAAbsent), 0)
  \/ \E c \in Callers : Return(c)
  \/ \E t \in Instants : Tick(t, nowMonth)

Spec == Init /\ [][Next]_vars

\* Concurrent makeRequest and recordUsage callers of one limiter without rate
\* limit, across a month boundary.
InitLedger ==
  Constructed(0, UnitCost, Num(2), "mini", "file", [m \in Months |-> Undef])

NextLedger ==
  \/ \E c \in Callers : makeRequest(c, Undefined)
  \/ \E c \in Callers : retryWithBackoff(c)
  \/ \E c \in Callers, ok \in SaveOutcomes : Succeed(c, MiniResponse, ok)
  \/ \E c \in Callers : Fail(c, Failure(429, "Error", "", "", RASeconds(0)), 0)
  \/ \E c \in Callers : BackoffWake(c)
  \/ usageCalls < MaxUsage /\ recordUsage(GPT_4O_MINI, 100, 50, TRUE)
  \/ \E m \in Months : Tick(MaxClock, m)

SpecLedger == InitLedger /\ [][NextLedger]_vars

\* One caller issuing its calls one after the other, on every failure shape,
\* option value and pricing fallback mode.
InitCall ==
  \E mode \in {"mini", "error"}, store \in InitLedgers :
    Constructed(0, 2 * UnitCost, Num(DefaultMaxRetries), mode, "file", store)

\* (requestsPerMinute is 0 here, so the rate gate never sleeps)
NextCall ==
  \/ \E opt \in CallOptions : makeRequest(1, opt)
  \/ retryWithBackoff(1)
  \/ \E resp \in Responses, ok \in SaveOutcomes : Succeed(1, resp, ok)
  \/ \E err \in Failures, j \in Jitters : Fail(1, err, j)
  \/ BackoffWake(1)
  \/ Return(1)
  \/ \E t \in Instants, m \in {nowMonth, Min(nowMonth + 1, MaxMonth)} : Tick(t, m)

SpecCall == InitCall /\ [][NextCall]_vars

\* One call on which every client.chat call settles, every due sleep ends and
\* time passes.
InitFair ==
  Constructed(0, 2 * UnitCost, Num(DefaultMaxRetries), "mini", "file",
              [m \in Months |-> Undef])

Settle(c) ==
  \/ \E resp \in Responses : Succeed(c, resp, TRUE)
  \/ \E err \in Failures, j \in Jitters : Fail(c, err, j)

Advance == \E t \in Instants : Tick(t, nowMonth)

NextFair ==
  \/ \E opt \in CallOptions : makeRequest(1, opt)
  \/ retryWithBackoff(1)
  \/ Settle(1)
  \/ BackoffWake(1)
  \/ Return(1)
  \/ Advance

FairSpecCall ==
  /\ InitFair
  /\ [][NextFair]_vars
  /\ WF_vars(retryWithBackoff(1))
  /\ WF_vars(Settle(1))
  /\ WF_vars(BackoffWake(1))
  /\ WF_vars(Advance)

\* One limiter over a FileStorage: spends are recorded, the system calls of
\* writeAll succeed or fail one by one, the process may die between them, and
\* a new limiter is constructed over the same file.
InitFiles ==
  { NoFile,
    FileOf(<< >>),
    FileOf(<<NullTok>>),
    FileOf(<<LBrace, Entry(1, UnitCost)>>),
    FileOf(JSONstringify([m \in Months |-> IF m = 1 THEN UnitCost ELSE Undef])) }

InitFile ==
  \E plat \in {"posix", "win32"}, f \in InitFiles, readOk \in BOOLEAN :
    LET c == constructor(f, readOk, 1) IN
    /\ platform = plat
    /\ file = f
    /\ tmpFile = NoFile
    /\ wstep = IF c.threw THEN "dead" ELSE "idle"
    /\ wdata = << >>
    /\ wthrow = FALSE
    /\ fileBefore = f
    /\ saveResult = "none"
    /\ rmResult = "none"
    /\ lastWritten = EmptyLedger
    /\ ctor = c
    /\ storage = EmptyLedger
    /\ currentMonthKey = 1
    /\ monthlySpend = c.spend
    /\ NoService
    /\ Fields(0, 3 * UnitCost, Num(DefaultMaxRetries), "mini", "file")

NextFile ==
  \/ \E rotateReadOk \in BOOLEAN, saveReadOk \in BOOLEAN, mkdirOk \in BOOLEAN :
       recordSpendFile(UnitCost, rotateReadOk, saveReadOk, mkdirOk)
  \/ \E res \in WriteResults : writeFileSync(res)
  \/ \E res \in RenameResults : renameSync(res)
  \/ \E ok \in BOOLEAN : fallbackRm(ok)
  \/ \E ok \in BOOLEAN : fallbackRename(ok)
  \/ \E ok \in BOOLEAN : cleanup(ok)
  \/ Crash
  \/ \E readOk \in BOOLEAN : Restart(readOk)
  \/ \E m \in Months : Tick(MaxClock, m)

SpecFile == InitFile /\ [][NextFile]_vars

\* Direct calls of estimateCostUSD, one after the other, under each fallback
\* mode.
ModelNames ==
  PricingKeys \cup ObjectPrototypeKeys
    \cup {GPT_4O_MINI_DATED, GPT_41_MINI_X, GPT_4, UNKNOWN_MODEL, << >>}

TokenCounts == {0, 50, 100, 1000}

Queries ==
  [model : ModelNames, promptTokens : TokenCounts, completionTokens : TokenCounts]

\* a caller prepares the arguments of the next call
ask(q) ==
  /\ query = NoQuery \/ answer.asked
  /\ query' = q
  /\ answer' = NoAnswer
  /\ UNCHANGED <<config, env, ledger, ledgerHist, window, callState, callHist,
                 counters, disk, diskHist, service, chainCall, chatCall, request,
                 retryAfterHeader, parsedDelay>>

\* estimateCostUSD(query) runs; resolvePricing is its first step
estimate ==
  /\ query # NoQuery
  /\ ~answer.asked
  /\ answer' = [asked |-> TRUE,
                resolved |-> resolvePricing(query.model, fallbackMode),
                estimate |-> estimateCostUSD(query.model, query.promptTokens,
                                             query.completionTokens, fallbackMode)]
  /\ UNCHANGED <<config, env, ledger, ledgerHist, window, callState, callHist,
                 counters, disk, diskHist, service, query, chainCall, chatCall, request,
                 retryAfterHeader, parsedDelay>>

InitPricing ==
  \E mode \in FallbackModes :
    Constructed(0, UnitCost, Num(DefaultMaxRetries), mode, "memory",
                [m \in Months |-> Undef])

NextPricing ==
  \/ \E q \in Queries : ask(q)
  \/ estimate

SpecPricing == InitPricing /\ [][NextPricing]_vars

\* Usage of calls made outside makeRequest is billed through recordUsage, at
\* most MaxCalls times, across a month change.
UsageInputs ==
  { <<GPT_4O_MINI, 100, 50>>, <<GPT_4O_MINI, 0, 0>>, <<UNKNOWN_MODEL, 100, 50>> }

InitUsage ==
  \E mode \in {"mini", "error"}, store \in InitLedgers :
    Constructed(0, 2 * UnitCost, Num(DefaultMaxRetries), mode, "file", store)

NextUsage ==
  \/ \E u \in UsageInputs, ok \in SaveOutcomes :
       usageCalls < MaxCalls /\ recordUsage(u[1], u[2], u[3], ok)
  \/ \E t \in Instants, m \in {nowMonth, Min(nowMonth + 1, MaxMonth)} : Tick(t, m)

SpecUsage == InitUsage /\ [][NextUsage]_vars

\* Concurrent invokes of runnables wrapped by withOpenAIRateLimit and by
\* withRateLimiter around one limiter.
\* each wrapper with its modelHint or modelName
ChainWrappers ==
  { <<"withOpenAIRateLimit", << >>>>, <<"withRateLimiter", UNKNOWN_MODEL>> }

\* outputs of the underlying model: usage nested in response_metadata with a
\* model the pricing table does not know, usage under the alternate keys of
\* usage_metadata, and a usage without completion tokens
Messages ==
  { Message("ok", NullUsage,
            ResponseMetadata(UNKNOWN_MODEL, << >>, << >>, Usage(100, 50, 150, Undef, Undef),
                             NullUsage, NullUsage), NullUsage),
    Message("ok", Usage(Undef, Undef, Undef, 100, 50), NullMetadata, NullUsage),
    Message("ok", Usage(100, Undef, Undef, Undef, Undef), NullMetadata, NullUsage) }

Boom == [Failure(0, "Error", "", "", RAAbsent) EXCEPT !.message = "boom"]

InitChain ==
  \E rpm \in {0, 1}, mode \in {"mini", "error"} :
    Constructed(rpm, 2 * UnitCost, Num(DefaultMaxRetries), mode, "file",
                [m \in Months |-> Undef])

NextChain ==
  \/ \E c \in Callers, w \in ChainWrappers : invoke(c, w[1], w[2])
  \/ \E c \in Callers : gate(c)
  \/ \E c \in Callers : RateWake(c)
  \/ \E c \in Callers : invokeModel(c)
  \/ \E c \in Callers, output \in Messages : modelResolves(c, output, TRUE)
  \/ \E c \in Callers : modelFails(c, Boom)
  \/ \E c \in Callers : invokeReturn(c)
  \/ \E t \in Instants : Tick(t, nowMonth)

SpecChain == InitChain /\ [][NextChain]_vars

\* Callers of one rate-limited limiter on which every request settles, time
\* passes, and every sleep ends when it is due: the clock does not pass the
\* end of a pending sleep before the sleeper has run. A call is started only
\* while the clock leaves room for it and for the callers already waiting:
\* one window each.
InitGate ==
  \E rpm \in {1, 2} :
    Constructed(rpm, 3 * UnitCost, Num(1), "mini", "file", [m \in Months |-> Undef])

waiting == {c \in Callers : pc[c] = "rate_sleep"}

Arrive(c) ==
  /\ clock + WindowMs * (Cardinality(waiting) + 1) <= MaxClock
  /\ makeRequest(c, Undefined)

Rejected(c) == Fail(c, Failure(401, "Error", "", "", RAAbsent), 0)

AdvanceOnTime ==
  \E t \in Instants :
    /\ \A c \in waiting : clock < wakeAt[c] /\ t <= wakeAt[c]
    /\ Tick(t, nowMonth)

NextGate ==
  \/ \E c \in Callers : Arrive(c)
  \/ \E c \in Callers : RateWake(c)
  \/ \E c \in Callers : retryWithBackoff(c)
  \/ \E c \in Callers : Rejected(c)
  \/ \E c \in Callers : Return(c)
  \/ AdvanceOnTime

FairSpecGate ==
  /\ InitGate
  /\ [][NextGate]_vars
  /\ \A c \in Callers : WF_vars(RateWake(c))
  /\ \A c \in Callers : WF_vars(retryWithBackoff(c))
  /\ \A c \in Callers : WF_vars(Rejected(c))
  /\ WF_vars(AdvanceOnTime)

\* Direct calls of OpenAIClient.chat with every combination of explicit
\* options, with and without extra keys.
ExtraValue(k) == <<"extra", k>>

\* no extra key, one extra key, or all of them at once
Extras == { [k \in RequestKeys |-> IF k \in K THEN ExtraValue(k) ELSE Absent] :
            K \in {{}, RequestKeys} \cup {{k} : k \in RequestKeys} }

Prompts == { Prompt(FALSE, <<"Hello world">>), Prompt(TRUE, <<"msg", "msg">>) }

ChatOptionSets ==
  { ChatOptions(model, temperature, maxTokens, <<"999">>, messages, extra) :
      model \in {Absent, <<"gpt-4o">>}, temperature \in {Absent, <<"0.3">>},
      maxTokens \in {Absent, <<"123">>}, messages \in {Absent, <<"msg">>},
      extra \in Extras }

InitClient ==
  Constructed(0, UnitCost, Num(DefaultMaxRetries), "mini", "memory",
              [m \in Months |-> Undef])

NextClient == \E prompt \in Prompts, opts \in ChatOptionSets : chat(prompt, opts)

SpecClient == InitClient /\ [][NextClient]_vars

\* Concurrent callers of a limiter admitting one request per minute whose
\* budget is reached, across a month boundary.
GateLedgers == InitLedgers \cup {[m \in Months |-> UnitCost]}

InitGates ==
  \E budget \in {UnitCost, 2 * UnitCost}, store \in GateLedgers :
    Constructed(1, budget, Num(2), "mini", "file", store)

NextGates ==
  \/ \E c \in Callers : makeRequest(c, Undefined)
  \/ \E c \in Callers : RateWake(c)
  \/ \E c \in Callers : retryWithBackoff(c)
  \/ \E c \in Callers : Succeed(c, MiniResponse, TRUE)
  \/ \E c \in Callers : Return(c)
  \/ \E t \in Instants, m \in {nowMonth, Min(nowMonth + 1, MaxMonth)} : Tick(t, m)

SpecGates == InitGates /\ [][NextGates]_vars

\* One caller of a limiter admitting one request per minute, with eight
\* attempts per call, whose failures are retryable without Retry-After,
\* retryable with Retry-After, or final; every sleep runs to its end.
BackoffFailures ==
  { Failure(429, "Error", "", "", RAAbsent),
    Failure(503, "Error", "", "", RASeconds(1)),
    Failure(401, "Error", "", "", RAAbsent) }

BackoffJitters == {0, JitterRange - 1}

\* the sleep of caller c runs to its end
Elapse(c) ==
  /\ pc[c] \in {"backoff", "rate_sleep"}
  /\ Tick(wakeAt[c], nowMonth)

InitBackoff ==
  Constructed(1, 3 * UnitCost, Num(8), "mini", "file",
              [m \in Months |-> Undef])

NextBackoff ==
  \/ makeRequest(1, Undefined)
  \/ RateWake(1)
  \/ retryWithBackoff(1)
  \/ \E err \in BackoffFailures, j \in BackoffJitters : Fail(1, err, j)
  \/ Elapse(1)
  \/ BackoffWake(1)
  \/ Return(1)

SpecBackoff == InitBackoff /\ [][NextBackoff]_vars

\* parseRetryAfter called directly on one raw header value at some instant.
HeaderChars == {"1", "2", "-", " ", "x"}

RECURSIVE TextsOfLength(_)
TextsOfLength(n) ==
  IF n = 0 THEN {<< >>}
  ELSE {Append(t, ch) : t \in TextsOfLength(n - 1), ch \in HeaderChars}

HeaderTexts == UNION {TextsOfLength(n) : n \in 0..MaxHeaderLen}

\* what Date.parse returns for the text: NaN, or an instant
DateValues == {Undef, 0} \cup Instants

RawHeaders ==
  {AbsentHeader} \cup {RawHeader(t, d) : t \in HeaderTexts, d \in DateValues}

\* a failure arrives with header h
receiveHeader(h) ==
  /\ retryAfterHeader = NoHeader
  /\ retryAfterHeader' = h
  /\ parsedDelay' = NotParsed
  /\ UNCHANGED <<config, env, ledger, ledgerHist, window, callState, callHist,
                 counters, disk, diskHist, service, query, answer, chainCall, chatCall, request>>

\* parseRetryAfter(retryAfterHeader) runs at the current instant
parse ==
  /\ retryAfterHeader # NoHeader
  /\ parsedDelay = NotParsed
  /\ parsedDelay' = [now |-> clock,
                     ms |-> parseRetryAfter(headerValue(retryAfterHeader), clock)]
  /\ UNCHANGED <<config, env, ledger, ledgerHist, window, callState, callHist,
                 counters, disk, diskHist, service, query, answer, chainCall, chatCall, request,
                 retryAfterHeader>>

InitRetryAfter ==
  Constructed(0, UnitCost, Num(DefaultMaxRetries), "mini", "memory",
              [m \in Months |-> Undef])

NextRetryAfter ==
  \/ \E h \in RawHeaders : receiveHeader(h)
  \/ parse
  \/ \E t \in Instants : parsedDelay = NotParsed /\ Tick(t, nowMonth)

SpecRetryAfter == InitRetryAfter /\ [][NextRetryAfter]_vars

\* One caller of a limiter without rate limit, over the values the maxRetries
\* option and the process default (OPENAI_MAX_RETRIES) can take.
RetryOptions == {Undefined, Num(0 - 1), Num(0), Num(2), NaNValue}

RetryDefaults == {Num(DefaultMaxRetries), Num(0), NaNValue}

InitOptions ==
  \E dflt \in RetryDefaults :
    Constructed(0, 3 * UnitCost, dflt, "mini", "file", [m \in Months |-> Undef])

NextOptions ==
  \/ \E opt \in RetryOptions : makeRequest(1, opt)
  \/ retryWithBackoff(1)
  \/ Succeed(1, MiniResponse, TRUE)
  \/ \E err \in {Failure(429, "Error", "", "", RASeconds(0)),
                  Failure(401, "Error", "", "", RAAbsent)} : Fail(1, err, 0)
  \/ BackoffWake(1)
  \/ Return(1)

SpecOptions == InitOptions /\ [][NextOptions]_vars

\* The HTTP service receiving requests from two client addresses.
ClientIps == {"10.0.0.1", "10.0.0.2"}

InitService ==
  \E envValue \in {Num(0), Num(2)} :
    /\ NoDisk
    /\ storage = [m \in Months |-> Undef]
    /\ currentMonthKey = 1
    /\ monthlySpend = 0
    /\ Fields(0, UnitCost, Num(DefaultMaxRetries), "mini", "memory")
    /\ RATE_LIMIT_PER_MIN = rateLimitPerMin(envValue)
    /\ buckets = << >>
    /\ allowedAt = << >>
    /\ lastRequest = NoRequestYet

NextService ==
  \/ \E ip \in ClientIps, authorized \in BOOLEAN, status \in {200, 400, 500} :
       processCorrection(ip, authorized, status)
  \/ \E t \in Instants : Tick(t, nowMonth)

SpecService == InitService /\ [][NextService]_vars

\* ===================================================================
\* Properties
\* ===================================================================

\* C1 -- a makeRequest whose budget gate finds the current-month spend at or
\* above the monthly budget fails with BudgetExceededError, and client.chat is
\* invoked zero times: no attempt is made.
BudgetGateStrict ==
  \A c \in Callers :
    (pc[c] # "idle" /\ startSpend[c] >= monthlyBudget)
      => /\ pc[c] = "done"
         /\ outcome[c] = "BudgetExceededError"
         /\ calls[c] = 0
         /\ attempt[c] = 0

\* a call was blocked with the spend exactly at the budget
BudgetGateStrictWitness ==
  \E c \in Callers :
    /\ pc[c] = "done"
    /\ outcome[c] = "BudgetExceededError"
    /\ startSpend[c] = monthlyBudget
    /\ monthCosts > 0

\* number of admissions whose timestamp lies in (now - 60000, now]
AdmittedIn(now) ==
  Cardinality({i \in 1..Len(admissions) :
                 admissions[i] > now - WindowMs /\ admissions[i] <= now})

\* C2 -- for requestsPerMinute N > 0, no trailing 60-second window
\* (now - 60000, now] holds more than N admissions, whatever the interleaving
\* of the concurrent callers.
WindowRespected ==
  requestsPerMinute > 0 => \A now \in Instants : AdmittedIn(now) <= requestsPerMinute

\* with N = 1 a caller that slept a whole window was admitted the instant the
\* window freed
WindowRespectedWitness ==
  /\ requestsPerMinute = 1
  /\ admissions = <<0, WindowMs>>
  /\ \E c \in Callers : pc[c] = "admitted" /\ sleepMs[c] = WindowMs

\* C3 (as stated) -- once the current-month spend has reached the budget no
\* client call is dispatched, including by calls that were waiting in the rate
\* gate or sleeping between retries when the budget was reached.
\* Stated for the runs in which only makeRequest calls raise the spend.
NoDispatchOverBudget == usageCalls = 0 => \A c \in Callers : ~overBudget[c]

\* C3 (amended) -- once the current-month spend has reached the budget, every
\* makeRequest that starts is rejected with BudgetExceededError without a
\* client call; the only client calls dispatched are those of calls that
\* passed the budget gate while the spend was below the budget (admitted, or
\* waking from a retry backoff), which are not checked again.
BudgetGateAtStartOnly ==
  [][\A c \in Callers :
       /\ (pc[c] = "idle" /\ pc'[c] # "idle" /\ rotateMonthIfNeeded.spend >= monthlyBudget)
            => (pc'[c] = "done" /\ outcome'[c] = "BudgetExceededError" /\ calls'[c] = 0)
       /\ calls'[c] > calls[c]
            => (pc[c] \in {"admitted", "backoff"} /\ startSpend[c] < monthlyBudget)]_vars

\* a call that passed the gate sent an attempt after the budget was reached
BudgetGateAtStartOnlyWitness ==
  \E c \in Callers :
    /\ overBudget[c]
    /\ pc[c] = "in_flight"
    /\ attempt[c] = 2
    /\ startSpend[c] < monthlyBudget

\* the failure carries an HTTP status the classifier retries
RetryableStatus(err) == err.status = 429 \/ err.status >= 500

\* the failure carries an abort/timeout signal
TimeoutSignal(err) ==
  err.name = "AbortError" \/ err.code \in TimeoutCodes \/ err.ecode \in TimeoutCodes

\* C4 -- a failure whose status is 401 or 400 ends the call at once: it is
\* not retried whatever maxAttempts is (exactly one client call when it is
\* the call's only failure) and InvalidApiKeyError resp. InvalidRequestError
\* is thrown.
NonRetryableShortCircuit ==
  \A c \in Callers :
    lastErr[c].status \in {400, 401}
      => /\ pc[c] = "done"
         /\ outcome[c] = (IF lastErr[c].status = 401 THEN "InvalidApiKeyError"
                          ELSE "InvalidRequestError")
         /\ failures[c] = 1 => calls[c] = 1

\* the error class C5 expects of a retryable failure
ExhaustedKind(err) ==
  IF err.status = 429 THEN "RateLimitError"
  ELSE IF err.status >= 500 THEN "ServerError"
  ELSE "NetworkTimeoutError"

\* C5 -- when every attempt fails with the same retryable failure (status
\* 429, status >= 500, or an abort/ETIMEDOUT/ECONNRESET signal) the call makes
\* exactly maxAttempts client calls and throws RateLimitError, ServerError or
\* NetworkTimeoutError respectively.
RetriesExhausted ==
  \A c \in Callers :
    ( /\ pc[c] = "done"
      /\ outcome[c] # "ok"
      /\ failures[c] >= 1
      /\ failures[c] = calls[c]
      /\ uniform[c]
      /\ (RetryableStatus(lastErr[c]) \/ TimeoutSignal(lastErr[c])) )
      => /\ calls[c] = maxAttempts[c]
         /\ outcome[c] = ExhaustedKind(lastErr[c])

\* C6 -- the attempt loop terminates: a call never makes more than
\* maxAttempts client calls, and once admitted it returns or throws, provided
\* every client call settles and every backoff sleep ends.
AttemptLoopTerminates ==
  /\ [](\A c \in Callers : calls[c] <= maxAttempts[c])
  /\ \A c \in Callers : (pc[c] \in {"admitted", "in_flight", "backoff"}) ~> (pc[c] = "done")

\* a call threw after three failed attempts
AttemptLoopTerminatesWitness ==
  \E c \in Callers :
    pc[c] = "done" /\ outcome[c] # "ok" /\ calls[c] = 3 /\ maxAttempts[c] = 3

\* the instant the pending sleep of c started
sleepStart(c) == wakeAt[c] - sleepMs[c]

\* C7 (as stated) -- whenever a retryable failure carries a parsable
\* Retry-After and attempts remain, the sleep before the next attempt is
\* exactly the parsed value.
RetryAfterVerbatimAnyFailure ==
  \A c \in Callers :
    (pc[c] = "backoff" /\ parseRetryAfter(lastErr[c].retryAfter, sleepStart(c)) # Undef)
      => sleepMs[c] = parseRetryAfter(lastErr[c].retryAfter, sleepStart(c))

\* C7 (amended) -- whenever a failure with status 429 or >= 500 carries a
\* parsable Retry-After and attempts remain, the sleep before the next attempt
\* is exactly the parsed value (no cap, no jitter, no backoff); with
\* Retry-After: 0 the sleep is 0 ms and, if the next attempt succeeds, the call
\* returns its response after exactly two client calls.
RetryAfterVerbatim ==
  \A c \in Callers :
    /\ ( /\ pc[c] = "backoff"
         /\ RetryableStatus(lastErr[c])
         /\ parseRetryAfter(lastErr[c].retryAfter, sleepStart(c)) # Undef )
         => sleepMs[c] = parseRetryAfter(lastErr[c].retryAfter, sleepStart(c))
    /\ ( /\ pc[c] = "done"
         /\ outcome[c] = "ok"
         /\ failures[c] = 1
         /\ RetryableStatus(lastErr[c])
         /\ lastErr[c].retryAfter = RASeconds(0) )
         => (calls[c] = 2 /\ response[c] # NoResponse)

\* a 429 with Retry-After: 0 was followed by a successful second attempt
RetryAfterVerbatimWitness ==
  \E c \in Callers :
    /\ pc[c] = "done"
    /\ outcome[c] = "ok"
    /\ calls[c] = 2
    /\ lastErr[c] = Failure(429, "Error", "", "", RASeconds(0))

\* the spend the cached month had before the call recorded anything
spendBefore(c) ==
  IF currentMonthKey = startKey[c] THEN startSpend[c]
  ELSE IF load(startStore[c], currentMonthKey) # Undef
       THEN load(startStore[c], currentMonthKey) ELSE 0

SpendDeltaIsCost ==
  [][/\ UnitCost = 180000
     /\ \A c \in Callers :
          (outcome[c] = "none" /\ outcome'[c] = "ok")
            => monthlySpend' = rotateMonthIfNeeded.spend
                 + estimateCostUSD(response'[c].model,
                                   IF response'[c].hasUsage THEN response'[c].prompt_tokens ELSE 0,
                                   IF response'[c].hasUsage THEN response'[c].completion_tokens ELSE 0,
                                   fallbackMode).cost]_vars

\* a second identical successful call added 0.00018 USD again
SpendDeltaIsCostWitness ==
  \E c \in Callers :
    /\ outcome[c] = "ok"
    /\ response[c] = MiniResponse
    /\ startSpend[c] = monthBase + UnitCost
    /\ monthlySpend = monthBase + 2 * UnitCost

\* C10 -- no spend update is lost: the spend of the cached month is the value
\* it was loaded with plus the sum of all costs recorded against it since, by
\* any interleaving of makeRequest and recordUsage callers, and after a save
\* that succeeded the persisted entry of that month equals it.
NoLostUpdate ==
  /\ monthlySpend = monthBase + monthCosts
  /\ persisted = "ok" => load(storage, currentMonthKey) = monthlySpend

\* two overlapping calls and a recordUsage were all billed
NoLostUpdateWitness ==
  \E c1, c2 \in Callers :
    /\ c1 # c2
    /\ outcome[c1] = "ok" /\ outcome[c2] = "ok"
    /\ startSpend[c1] = startSpend[c2]
    /\ startKey[c1] = currentMonthKey /\ startKey[c2] = currentMonthKey
    /\ usageCalls = 1
    /\ monthCosts = 3 * UnitCost
    /\ persisted = "ok"

\* C11 -- a makeRequest that starts after the UTC month-key changed compares
\* the ledger entry of the new month (0 if absent) with the budget, not the
\* spend of the old month: the cached key becomes the new month, and the call
\* is admitted exactly when that entry is below the budget.
MonthRolloverResetsBudget ==
  [][\A c \in Callers :
       (pc[c] = "idle" /\ pc'[c] # "idle" /\ nowMonth # currentMonthKey)
         => LET entry == storage[nowMonth]
                spend == IF entry # Undef THEN entry ELSE 0
            IN /\ currentMonthKey' = nowMonth
               /\ startSpend'[c] = spend
               /\ spend < monthlyBudget => pc'[c] = "admitted"
               /\ spend >= monthlyBudget => outcome'[c] = "BudgetExceededError"]_vars

\* a limiter whose old month is over budget admitted a call in the new month
MonthRolloverResetsBudgetWitness ==
  \E c \in Callers :
    /\ pc[c] = "admitted"
    /\ currentMonthKey = 2
    /\ storage[1] >= monthlyBudget
    /\ startSpend[c] < monthlyBudget
    /\ seqCalls = 2

\* C13 -- when the save of the spend throws during an otherwise successful
\* makeRequest, the call still returns the response, the in-memory spend
\* includes its cost while the persisted ledger is unchanged, and the budget
\* gate of a later call in the same month compares the in-memory value.
SaveFailureNotFatal ==
  [][\A c \in Callers :
       /\ (outcome[c] = "none" /\ outcome'[c] = "ok" /\ persisted' = "failed")
            => LET entry == storage[nowMonth]
                   base == IF nowMonth = currentMonthKey THEN monthlySpend
                           ELSE IF entry # Undef THEN entry ELSE 0
               IN /\ pc'[c] = "done"
                  /\ response'[c] # NoResponse
                  /\ monthlySpend' = base + responseCost(response'[c], fallbackMode).cost
                  /\ storage' = storage
       /\ (pc[c] = "idle" /\ pc'[c] # "idle" /\ persisted = "failed"
             /\ nowMonth = currentMonthKey)
            => /\ startSpend'[c] = monthlySpend
               /\ monthlySpend >= monthlyBudget => outcome'[c] = "BudgetExceededError"]_vars

\* a call was blocked by a spend the ledger file never received
SaveFailureNotFatalWitness ==
  \E c \in Callers :
    /\ outcome[c] = "BudgetExceededError"
    /\ persisted = "failed"
    /\ startSpend[c] >= monthlyBudget
    /\ storage[currentMonthKey] < monthlyBudget

\* C18 -- with requestsPerMinute <= 0 a makeRequest that passes the budget gate
\* leaves waitForRateLimit in the same step, without sleeping, whatever the
\* number of calls in flight, and the timestamp window and the waiting queue
\* stay empty.
UnlimitedIsNoOp ==
  [][requestsPerMinute <= 0 =>
       /\ lastMinuteTimestamps' = << >>
       /\ requestQueue' = << >>
       /\ \A c \in Callers :
            /\ pc'[c] # "rate_sleep"
            /\ (pc[c] = "idle" /\ pc'[c] # "idle" /\ outcome'[c] = "none")
                 => (pc'[c] = "admitted" /\ sleepMs'[c] = sleepMs[c])]_vars

\* every caller has dispatched at the same instant under a negative limit
UnlimitedIsNoOpWitness ==
  /\ requestsPerMinute < 0
  /\ clock = 0
  /\ seqCalls = MaxCalls
  /\ \A c \in Callers : calls[c] >= 1

\* C12 -- a limiter constructed over the ledger file, the file being readable,
\* starts with the spend that was last written to the file for the current
\* month-key by any earlier recording.
PersistenceSurvivesRestart ==
  (ctor.fresh /\ ctor.readOk /\ lastWritten[currentMonthKey] # Undef)
    => (~ctor.threw /\ monthlySpend = lastWritten[currentMonthKey])

\* C14 -- at every step of writeAll, and after a crash at any of them, the
\* destination holds the complete ledger it held before the save or the
\* complete new one; it is never torn and never absent when it existed.
SaveIsAtomic ==
  (wstep \in {"write", "rename", "fallback_rm", "fallback_rename", "cleanup"}
     \/ (wstep = "dead" /\ saveResult = "crashed"))
    => (file = fileBefore \/ (wdata # << >> /\ file = FileOf(wdata)))

unusable(f, readOk) ==
  \/ ~f.exists
  \/ ~readOk
  \/ JSONparse(f.text).threw
  \/ JSONparse(f.text).null

\* C16 -- over a missing, unreadable or corrupt ledger file, load throws for no
\* month-key and returns absent for each, and the constructor completes with
\* monthly spend 0.
LoadNeverThrows ==
  (ctor.fresh /\ unusable(ctor.saw, ctor.readOk))
    => /\ \A m \in Months :
            FileStorage_load(ctor.saw, ctor.readOk, m) = [threw |-> FALSE, value |-> Undef]
       /\ ~ctor.threw
       /\ monthlySpend = 0

\* C17 -- no step of a save of month-key K changes the value the file holds for
\* any other month-key.
PastMonthsRetained ==
  [][\A m \in Months :
       m # currentMonthKey => persistedValue(file', m) = persistedValue(file, m)]_vars

\* the table keys that are a prefix of a model name
prefixKeys(model) == {k \in PricingKeys : StartsWith(model, k)}

\* C19 -- resolvePricing returns the entry of the key equal to the model name
\* when there is one, else the entry of the longest key that is a prefix of
\* the name, else what the fallback mode prescribes (the gpt-4o entry for
\* conservative, an Error for error, the gpt-4o-mini entry otherwise).
LongestPrefixResolution ==
  answer.asked =>
    LET model == query.model
        longest == CHOOSE k \in prefixKeys(model) :
                     \A j \in prefixKeys(model) : Len(j) <= Len(k)
        r == answer.resolved
    IN IF model \in PricingKeys
         THEN r.ok /\ r.isPricing /\ r.pricing = MODEL_PRICING[model]
       ELSE IF prefixKeys(model) # {}
         THEN r.ok /\ r.isPricing /\ r.pricing = MODEL_PRICING[longest]
       ELSE IF fallbackMode = "error" THEN ~r.ok
       ELSE /\ r.ok
            /\ r.isPricing
            /\ r.pricing = MODEL_PRICING[IF fallbackMode = "conservative"
                                         THEN GPT_4O ELSE GPT_4O_MINI]

\* the cost of the token counts of the query under the entry of key k
costUnder(k) ==
  ToFixed6(query.promptTokens * MODEL_PRICING[k].inputPer1K
           + query.completionTokens * MODEL_PRICING[k].outputPer1K)

\* the query names a model that matches no table key
unmatched == query.model \notin PricingKeys /\ prefixKeys(query.model) = {}

ConservativeFallbackIsDearest ==
  (answer.asked /\ fallbackMode = "conservative" /\ unmatched)
    => /\ answer.estimate.ok
       /\ ~answer.estimate.nan
       /\ \A k \in PricingKeys : answer.estimate.cost >= costUnder(k)

\* a model name that equals a table key or extends one
matched(model) == model \in PricingKeys \/ prefixKeys(model) # {}

\* C22 -- in mode error, a response naming a model that matches no table key
\* is never billed or returned: the step that receives it leaves the monthly
\* spend, the cached month-key and the store unchanged, ends the call with the
\* pricing Error and sends no further request.
PricingErrorNotBilled ==
  [][fallbackMode = "error" =>
       \A c \in Callers :
         /\ (outcome[c] = "none" /\ outcome'[c] = "ok") => matched(response'[c].model)
         /\ (pc[c] = "in_flight" /\ lastErr'[c] = PricingErr)
              => /\ monthlySpend' = monthlySpend
                 /\ currentMonthKey' = currentMonthKey
                 /\ storage' = storage
                 /\ pc'[c] = "done"
                 /\ outcome'[c] = "Error"
                 /\ response'[c] = NoResponse
                 /\ calls'[c] = calls[c]]_vars

\* a call ended with the pricing Error after one request, nothing billed
PricingErrorNotBilledWitness ==
  \E c \in Callers :
    /\ fallbackMode = "error"
    /\ pc[c] = "done"
    /\ outcome[c] = "Error"
    /\ lastErr[c] = PricingErr
    /\ calls[c] = 1
    /\ monthlySpend = startSpend[c]
    /\ storage = startStore[c]

\* the closed set of error kinds makeRequest throws; "Error" is the generic one
ClosedKinds ==
  {"BudgetExceededError", "InvalidApiKeyError", "InvalidRequestError", "RateLimitError",
   "ServerError", "NetworkTimeoutError", "Error"}

\* the kind one failure alone normalizes to
kindOf(err) ==
  CASE err.status = 401 -> "InvalidApiKeyError"
    [] err.status = 400 -> "InvalidRequestError"
    [] err.status = 429 -> "RateLimitError"
    [] err.status >= 500 -> "ServerError"
    [] err.status \notin {400, 401, 429} /\ err.status < 500
         /\ (err.name = "AbortError" \/ err.code \in TimeoutCodes) -> "NetworkTimeoutError"
    [] OTHER -> "Error"

\* C23 -- the error a makeRequest call throws is of a closed kind, and unless
\* it is BudgetExceededError it is the kind of the failure of the call's last
\* attempt alone, thrown in the step that caught that failure; failures of
\* earlier attempts have no part in it.
LastFailureNormalized ==
  [][\A c \in Callers :
       (outcome[c] = "none" /\ outcome'[c] \notin {"none", "ok"})
         => /\ outcome'[c] \in ClosedKinds
            /\ outcome'[c] = "BudgetExceededError" => calls'[c] = 0
            /\ outcome'[c] # "BudgetExceededError" => outcome'[c] = kindOf(lastErr'[c])
            /\ failures'[c] > 0 => (pc[c] = "in_flight" /\ failures'[c] = failures[c] + 1)]_vars

\* a retried failure followed by a 401: the call threw InvalidApiKeyError
LastFailureNormalizedWitness ==
  \E c \in Callers :
    /\ outcome[c] = "InvalidApiKeyError"
    /\ lastErr[c].status = 401
    /\ failures[c] = 2
    /\ calls[c] = 2
    /\ ~uniform[c]

Occurrences(events, e) == Cardinality({i \in 1..Len(events) : events[i] = e})

\* C25: an invoke of a runnable wrapped by withOpenAIRateLimit calls
\* waitForRateLimit exactly once, invokes the underlying model only after that
\* call has returned and at most once, and when the model fails the invoke
\* rejects with the model's error after that single model call.
GateOnceNoRetries ==
  \A c \in DOMAIN chainCall :
    chainCall[c].wrapper = "withOpenAIRateLimit" =>
      LET ev == chainCall[c].events IN
      /\ Occurrences(ev, "waitForRateLimit") <= 1
      /\ Occurrences(ev, "model.invoke") <= 1
      /\ Occurrences(ev, "model.invoke") = 1 =>
           /\ ev[1] = "waitForRateLimit" /\ ev[2] = "model.invoke"
           /\ pc[c] = "idle"
      /\ pc[c] \in {"rate_sleep", "admitted"} => ev = <<"waitForRateLimit">>
      /\ chainCall[c].step = "done" =>
           /\ Occurrences(ev, "waitForRateLimit") = 1
           /\ Occurrences(ev, "model.invoke") = 1
      /\ (chainCall[c].step = "done" /\ ev[Len(ev)] = "throw") =>
           /\ ev = <<"waitForRateLimit", "model.invoke", "throw">>
           /\ chainCall[c].err = Boom

\* a caller slept in the rate gate, then its model failed
GateOnceNoRetriesWitness ==
  \E c \in DOMAIN chainCall :
    /\ chainCall[c].wrapper = "withOpenAIRateLimit"
    /\ chainCall[c].step = "done"
    /\ chainCall[c].err = Boom
    /\ requestsPerMinute = 1
    /\ Len(admissions) = 2
    /\ admissions[2] = clock
    /\ clock > 0

\* C26: no step of an invoke through withOpenAIRateLimit changes the limiter's
\* month, spend or ledger, and whenever the underlying model resolves the
\* invoke resolves with that very output, also when the cost estimate threw.
LogCostLeavesSpendAndOutput ==
  [][\A c \in Callers :
       LET before == c \in DOMAIN chainCall
           after == c \in DOMAIN chainCall'
           through == \/ before /\ chainCall[c].wrapper = "withOpenAIRateLimit"
                      \/ after /\ chainCall'[c].wrapper = "withOpenAIRateLimit"
           stepped == \/ before # after
                      \/ before /\ after /\ chainCall'[c] # chainCall[c]
                      \/ before /\ pc'[c] # pc[c]
       IN (through /\ stepped)
            => /\ UNCHANGED <<currentMonthKey, monthlySpend, storage>>
               /\ (before /\ after /\ chainCall[c].step = "model" /\ chainCall'[c].err = NoErr)
                    => /\ chainCall'[c].step = "done"
                       /\ chainCall'[c].result = chainCall'[c].output
                       /\ chainCall'[c].output \in Messages
                       /\ chainCall'[c].events[Len(chainCall'[c].events)] = "return"]_vars

\* the estimate threw (unknown model, FALLBACK_MODE "error") and the output
\* was returned all the same
LogCostLeavesSpendAndOutputWitness ==
  \E c \in DOMAIN chainCall :
    /\ chainCall[c].wrapper = "withOpenAIRateLimit"
    /\ chainCall[c].step = "done"
    /\ chainCall[c].log = "warn"
    /\ chainCall[c].result = chainCall[c].output
    /\ chainCall[c].result.response_metadata.model = UNKNOWN_MODEL
    /\ monthlySpend = 0

\* the token counts withRateLimiter finds in an output, Undef when missing
adapterCounts(output) ==
  LET usage == adapterUsage(output) IN
  [promptTokens |-> IF usage.isNull THEN Undef
                    ELSE Coalesce(usage.prompt_tokens, usage.input_tokens),
   completionTokens |-> IF usage.isNull THEN Undef
                        ELSE Coalesce(usage.completion_tokens, usage.output_tokens)]

ConflictingKeys == CoreKeys \cup {"messages", "max_tokens"}

\* C28: the request chat sends carries the explicit options (or their
\* defaults) in its core fields whatever `extra` holds, none of the
\* conflicting keys of `extra`, and every other key of `extra` as given.
ExtraNeverOverridesCore ==
  request.sent =>
    LET o == chatCall.options
        byMessages == o.messages # Absent \/ chatCall.prompt.isArray
    IN /\ request.params["model"] = (IF o.model # Absent THEN o.model ELSE DefaultModel)
       /\ request.params["temperature"] =
            (IF o.temperature # Absent THEN o.temperature ELSE DefaultTemperature)
       /\ request.params["max_output_tokens"] =
            (IF o.maxTokens # Absent THEN o.maxTokens ELSE UndefinedValue)
       /\ byMessages => request.params["input"][1] = "items"
       /\ ~byMessages => request.params["input"] = chatCall.prompt.v
       /\ \A k \in ConflictingKeys \ CoreKeys : request.params[k] = Absent
       /\ \A k \in RequestKeys \ ConflictingKeys : request.params[k] = o.extra[k]

\* the placeholder tokens caller c has in the queue
placeholders(queue, c) == SelectSeq(queue, LAMBDA t : t.owner = c)

\* C29: a caller that finds the window full at `clock` sleeps exactly
\* 60000 - (clock - oldest) ms, oldest being the first timestamp the prune
\* retained; that wait lies in 1..60000; and a sleeping caller is admitted
\* only by a step taken once its sleep is over, which prunes again, finds the
\* window below the limit, and pushes the current instant.
SleepUntilOldestExpires ==
  [][\A c \in Callers :
       /\ (pc'[c] = "rate_sleep" /\ (pc[c] # "rate_sleep"
                                       \/ placeholders(requestQueue', c)
                                            # placeholders(requestQueue, c)))
            => /\ requestsPerMinute > 0
               /\ Len(lastMinuteTimestamps') >= requestsPerMinute
               /\ \A i \in 1..Len(lastMinuteTimestamps') :
                    /\ clock - lastMinuteTimestamps'[i] < WindowMs
                    /\ lastMinuteTimestamps'[1] <= lastMinuteTimestamps'[i]
               /\ sleepMs'[c] = WindowMs - (clock - lastMinuteTimestamps'[1])
               /\ sleepMs'[c] >= 1 /\ sleepMs'[c] <= WindowMs
               /\ wakeAt'[c] = clock + sleepMs'[c]
               /\ pc[c] = "rate_sleep" => clock >= wakeAt[c]
       /\ (pc[c] = "rate_sleep" /\ pc'[c] # "rate_sleep")
            => /\ pc'[c] = "admitted"
               /\ clock >= wakeAt[c]
               /\ Len(SelectSeq(lastMinuteTimestamps, LAMBDA t : clock - t < WindowMs))
                    < requestsPerMinute
               /\ lastMinuteTimestamps'[Len(lastMinuteTimestamps')] = clock]_vars

\* the second caller arrived 1 ms before the slot taken at 0 expired, slept
\* that 1 ms, checked again and was admitted
SleepUntilOldestExpiresWitness ==
  \E c \in Callers :
    /\ pc[c] = "admitted"
    /\ sleepMs[c] = 1
    /\ wakeAt[c] = WindowMs
    /\ requestsPerMinute = 1
    /\ admissions = <<0, WindowMs>>

WindowShape ==
  /\ [](requestsPerMinute > 0 =>
          /\ Len(lastMinuteTimestamps) <= requestsPerMinute
          /\ \A i, j \in 1..Len(lastMinuteTimestamps) :
               i <= j => /\ lastMinuteTimestamps[i] <= lastMinuteTimestamps[j]
                         /\ lastMinuteTimestamps[j] - lastMinuteTimestamps[i] < WindowMs)
  /\ [][LET old == {i \in 1..Len(lastMinuteTimestamps) :
                      clock - lastMinuteTimestamps[i] >= WindowMs}
            kept == SelectSeq(lastMinuteTimestamps, LAMBDA t : clock - t < WindowMs)
        IN \/ lastMinuteTimestamps' = lastMinuteTimestamps
           \/ /\ \E c \in Callers : pc[c] \in {"idle", "rate_sleep"} /\ pc'[c] # pc[c]
              /\ clock' = clock
              /\ lastMinuteTimestamps' \in {kept, Append(kept, clock)}
              /\ Len(lastMinuteTimestamps') < Len(lastMinuteTimestamps) => old # {}]_vars

\* the window of N = 2 is full with two entries 59999 ms apart
WindowShapeWitness ==
  /\ requestsPerMinute = 2
  /\ lastMinuteTimestamps = <<0, WindowMs - 1>>

\* C32 (as stated): a makeRequest call rejected by the budget gate leaves the
\* timestamp window, the waiting queue, the monthly spend and the persisted
\* ledger unchanged.
RejectedCallChangesNothing ==
  [][\A c \in Callers :
       (pc[c] = "idle" /\ pc'[c] = "done" /\ outcome'[c] = "BudgetExceededError")
         => /\ lastMinuteTimestamps' = lastMinuteTimestamps
            /\ requestQueue' = requestQueue
            /\ monthlySpend' = monthlySpend
            /\ storage' = storage]_vars

\* C32 (amended): a makeRequest call rejected by the budget gate leaves the
\* timestamp window, the waiting queue and the persisted ledger unchanged and
\* calls client.chat not at all; the cached month-key and spend are unchanged
\* too unless the UTC month has changed since they were cached, in which case
\* they become the new month and its persisted entry (or 0).
RejectedCallOnlyRotates ==
  [][\A c \in Callers :
       (pc[c] = "idle" /\ pc'[c] = "done" /\ outcome'[c] = "BudgetExceededError")
         => /\ lastMinuteTimestamps' = lastMinuteTimestamps
            /\ requestQueue' = requestQueue
            /\ admissions' = admissions
            /\ storage' = storage
            /\ calls' = calls
            /\ currentMonthKey' = nowMonth
            /\ monthlySpend' = IF nowMonth = currentMonthKey THEN monthlySpend
                               ELSE IF storage[nowMonth] # Undef THEN storage[nowMonth]
                               ELSE 0]_vars

\* a call has just been rejected while the window holds an entry
RejectedCallOnlyRotatesWitness ==
  \E c \in Callers :
    /\ pc[c] = "done"
    /\ outcome[c] = "BudgetExceededError"
    /\ calls[c] = 0
    /\ lastMinuteTimestamps # << >>

\* the failure brings no delay of its own: no Retry-After header, an empty or
\* an unparsable one, or a timeout (whose header is not read)
noRetryAfter(err) ==
  \/ err.retryAfter.kind \in {"absent", "empty", "garbage"}
  \/ err.status # 429 /\ ~(err.status >= 500)

\* C33: when attempt a fails with a retryable failure without usable
\* Retry-After and attempts remain, the sleep before attempt a+1 is min(15000,
\* 500*2^(a-1) + j) ms for some j in 0..99: at most 15000, at least min(15000,
\* 500*2^(a-1)), and exactly 15000 from attempt 6 on.
BackoffDelayBounds ==
  [][\A c \in Callers :
       (pc[c] = "in_flight" /\ pc'[c] = "backoff" /\ noRetryAfter(lastErr'[c]))
         => LET a == attempt[c]
                d == sleepMs'[c]
            IN /\ \E j \in 0..99 : d = Min(15000, 500 * Pow2(a - 1) + j)
               /\ d <= 15000
               /\ d >= Min(15000, 500 * Pow2(a - 1))
               /\ a >= 6 => d = 15000
               /\ wakeAt'[c] = clock + d]_vars

\* the sixth attempt has failed with a 429 without Retry-After and the caller
\* sleeps 15000 ms before the seventh
BackoffDelayBoundsWitness ==
  /\ pc[1] = "backoff"
  /\ attempt[1] = 6
  /\ lastErr[1] = Failure(429, "Error", "", "", RAAbsent)
  /\ sleepMs[1] = 15000

\* C34: parseRetryAfter gives max(0, s*1000) ms for a numeric string s,
\* max(0, d - now) ms for a non-numeric string that parses as the date d, and
\* no delay for an absent, empty or unparsable value; so a defined result is
\* never negative, and a negative number or a date not after now gives 0.
RetryAfterParsed ==
  parsedDelay # NotParsed =>
    LET h == retryAfterHeader
        n == Number(h.text)
        ms == parsedDelay.ms
    IN /\ (h.absent \/ h.text = << >>) => ms = Undef
       /\ (~h.absent /\ h.text # << >> /\ ~n.nan) => ms = Max(0, n.v * 1000)
       /\ (~h.absent /\ n.nan /\ h.dateMs # Undef) => ms = Max(0, h.dateMs - parsedDelay.now)
       /\ (~h.absent /\ n.nan /\ h.dateMs = Undef) => ms = Undef
       /\ ms # Undef => ms >= 0
       /\ (~h.absent /\ h.text # << >> /\ ~n.nan /\ n.v < 0) => ms = 0
       /\ (~h.absent /\ n.nan /\ h.dateMs # Undef /\ h.dateMs <= parsedDelay.now) => ms = 0

\* a date in the past has been parsed to 0
RetryAfterParsedWitness ==
  /\ parsedDelay # NotParsed
  /\ retryAfterHeader = RawHeader(<<"x">>, 0)
  /\ parsedDelay.now = WindowMs
  /\ parsedDelay.ms = 0

ClassifiersAgree ==
  \A c \in Callers :
    failures[c] > 0 =>
      LET cr == classifyRetry(lastErr[c], clock)
          kind == normalizeError(lastErr[c], clock).kind
      IN /\ cr.shouldRetry <=> kind \in {"RateLimitError", "ServerError", "NetworkTimeoutError"}
         /\ cr.reason = "network_timeout" => kind = "NetworkTimeoutError"

\* C37: with N > 0 every makeRequest call that passes the budget gate pushes
\* exactly one timestamp, before its first attempt: the timestamps pushed so
\* far are as many as the calls started and not waiting at the rate gate,
\* whatever their attempts and outcomes; and no step of the attempt loop
\* touches the window or the waiting queue.
OneSlotPerCall ==
  /\ [](requestsPerMinute > 0 =>
          /\ Len(admissions) = seqCalls - Cardinality({c \in Callers : pc[c] = "rate_sleep"})
          /\ \A c \in Callers : pc[c] \in {"idle", "rate_sleep"} => calls[c] = 0)
  /\ [][\A c \in Callers :
          (pc[c] \in {"admitted", "in_flight", "backoff"} /\ pc'[c] # pc[c])
            => UNCHANGED <<lastMinuteTimestamps, admissions, requestQueue>>]_vars

\* a call has made all its eight attempts and failed: one timestamp pushed
OneSlotPerCallWitness ==
  /\ requestsPerMinute > 0
  /\ seqCalls = 1
  /\ pc[1] = "done"
  /\ outcome[1] = "RateLimitError"
  /\ calls[1] = 8
  /\ admissions = <<0>>
  /\ lastMinuteTimestamps = <<0>>

\* C38: whatever the maxRetries option and the process default are, a
\* makeRequest call that has passed the budget and rate gates has called
\* client.chat at least once when it returns or throws.
AtLeastOneAttempt ==
  \A c \in Callers :
    (pc[c] = "done" /\ outcome[c] # "BudgetExceededError") => calls[c] >= 1

\* the callers asleep inside waitForRateLimit
sleepers(p) == {c \in Callers : p[c] = "rate_sleep"}

PerIpWindow ==
  /\ [](\A ip \in DOMAIN allowedAt :
          \A e \in 1..Len(allowedAt[ip]) :
            Cardinality({i \in 1..Len(allowedAt[ip]) :
                           /\ allowedAt[ip][i] <= allowedAt[ip][e]
                           /\ allowedAt[ip][e] - allowedAt[ip][i] < 60000})
              <= RATE_LIMIT_PER_MIN)
  /\ [][lastRequest'.n # lastRequest.n =>
          LET ip == lastRequest'.ip
              old == IF ip \in DOMAIN buckets THEN buckets[ip] ELSE << >>
          IN /\ lastRequest'.status = 401 => buckets' = buckets /\ allowedAt' = allowedAt
             /\ lastRequest'.status = 429 =>
                  /\ buckets'[ip] = SelectSeq(old, LAMBDA t : clock - t < 60000)
                  /\ Len(buckets'[ip]) >= RATE_LIMIT_PER_MIN
                  /\ allowedAt' = allowedAt
             /\ lastRequest'.status \notin {401, 429} =>
                  /\ buckets'[ip] = Append(SelectSeq(old, LAMBDA t : clock - t < 60000), clock)
                  /\ Len(buckets'[ip]) <= RATE_LIMIT_PER_MIN
             /\ \A other \in (DOMAIN buckets \cup DOMAIN buckets') \ {ip} :
                  /\ other \in DOMAIN buckets
                  /\ other \in DOMAIN buckets'
                  /\ buckets'[other] = buckets[other]]_vars

\* with a limit of 1, one address was allowed at 0, rejected at 59999 and
\* allowed again at 60000, while the other address was allowed in between
PerIpWindowWitness ==
  /\ RATE_LIMIT_PER_MIN = 1
  /\ lastRequest.n = 4
  /\ lastRequest.status = 200
  /\ lastRequest.ip = "10.0.0.1"
  /\ allowedAt = ("10.0.0.1" :> <<0, 60000>>) @@ ("10.0.0.2" :> <<59999>>)
  /\ buckets = ("10.0.0.1" :> <<60000>>) @@ ("10.0.0.2" :> <<59999>>)

====
